---- MODULE Spec2Model ----
(***************************************************************************)
(* A model of the Azure DevOps work item retrieval system:                 *)
(*   chunker.py          RecursiveCharacterTextSplitter                     *)
(*   ado_vector_store.py ADOVectorStore (similarity search, aggregation)    *)
(*   ado_qa_system.py    ADOQASystem (answer_question and its helpers)      *)
(*                                                                         *)
(* Texts are sequences of one-character strings.  Similarity scores are    *)
(* exact rationals, held as integers in units of 1/ScoreScale.             *)
(***************************************************************************)
EXTENDS Integers, Sequences, FiniteSets, TLC

VARIABLES
    \* ---- chunker.py: one RecursiveCharacterTextSplitter and one call ----
    text,              \* the document handed to the splitter
    chunk_size,        \* self.chunk_size
    chunk_overlap,     \* self.chunk_overlap
    separators,        \* self.separators
    splitPc,           \* "idle" | "split_text" | "split_document" | "raised"
    split_out,         \* the list the call returned (texts)
    frames,            \* the stack of the _split_text calls in flight
    \* ---- ado_vector_store.py: the ADOVectorStore ----
    embeddings_file,   \* the records of the embeddings JSON file
    embeddings_matrix, \* self.embeddings_matrix, << >> standing for None
    chunk_metadata,    \* self.chunk_metadata
    \* ---- the last request served and what it returned ----
    req,               \* the operation called and its arguments
    result,            \* what the call returned, or that it raised
    calls,             \* the capability calls the request made, in order
    \* ---- calls in flight on the store, each a thread of the caller ----
    loader,            \* the position and the locals of a load_embeddings
    searcher           \* the position and the locals of a similarity_search

splitVars == <<text, chunk_size, chunk_overlap, separators, splitPc, split_out, frames>>

storeVars == <<embeddings_file, embeddings_matrix, chunk_metadata>>

reqVars == <<req, result, calls>>

threadVars == <<loader, searcher>>

vars == <<text, chunk_size, chunk_overlap, separators, splitPc, split_out, frames,
          embeddings_file, embeddings_matrix, chunk_metadata, req, result, calls,
          loader, searcher>>

\* no call is in flight
ThreadsIdle ==
    /\ loader = [pc |-> "idle"]
    /\ searcher = [pc |-> "idle"]

(***************************************************************************)
(* Bounds of the model.                                                    *)
(***************************************************************************)
MaxTextLen == 5
MaxChunkSize == 3
MaxRecords == 3

(***************************************************************************)
(* Python helpers.                                                         *)
(***************************************************************************)
Min(S) == CHOOSE x \in S : \A y \in S : x <= y

Max(S) == CHOOSE x \in S : \A y \in S : x >= y

\* s[i:j] for 0 <= i, 0 <= j (0-based, end exclusive, clamped to the length)
PySlice(s, i, j) ==
    LET hi == IF j > Len(s) THEN Len(s) ELSE j
    IN  IF i >= hi THEN << >> ELSE SubSeq(s, i + 1, hi)

\* s[-k:] for k >= 0: Python reads s[-0:] as s[0:], the whole list
PyTail(s, k) ==
    IF k = 0 \/ k >= Len(s) THEN s ELSE SubSeq(s, Len(s) - k + 1, Len(s))

\* range(0, n, step) as a sequence, for a step other than 0: a negative step
\* gives the empty range
PyRange(n, step) ==
    IF n <= 0 \/ step < 0 THEN << >>
    ELSE [k \in 1..(((n - 1) \div step) + 1) |-> (k - 1) * step]

\* range(0, n, 0) raises ValueError.  The exception is carried as this value in
\* the place of a chunk; no later pass of _split_text drops a chunk, so a call
\* raised exactly when its list of chunks holds it.
RangeError == <<"ValueError">>

Raised(chunks) ==
    \E k \in 1..Len(chunks) : \E i \in 1..Len(chunks[k]) : chunks[k][i] = "ValueError"

\* str.split(sep) for a non-empty separator: empty strings are kept
RECURSIVE PySplit(_, _)
PySplit(s, sep) ==
    LET n == Len(sep)
        pos == {i \in 1..(Len(s) - n + 1) : SubSeq(s, i, i + n - 1) = sep}
    IN  IF pos = {} THEN <<s>>
        ELSE LET p == Min(pos)
             IN  <<SubSeq(s, 1, p - 1)>> \o PySplit(SubSeq(s, p + n, Len(s)), sep)

IsSpace(c) == c \in {" ", "\n"}

\* str.strip(): leading and trailing whitespace removed
RECURSIVE PyLStrip(_)
PyLStrip(s) ==
    IF s # << >> /\ IsSpace(Head(s)) THEN PyLStrip(Tail(s)) ELSE s

RECURSIVE PyRStrip(_)
PyRStrip(s) ==
    IF s # << >> /\ IsSpace(s[Len(s)]) THEN PyRStrip(SubSeq(s, 1, Len(s) - 1)) ELSE s

PyStrip(s) == PyRStrip(PyLStrip(s))

(***************************************************************************)
(* The tokenizer (tiktoken, reached through get_tokenizer): byte pair      *)
(* encoding over the UTF-8 bytes of the text.  A token is a non-empty      *)
(* sequence of bytes; encode starts from one token per byte and repeatedly *)
(* merges the adjacent pair of lowest rank (leftmost first); decode        *)
(* concatenates the bytes and reads them back as characters, an incomplete *)
(* character becoming the replacement character "?".  The character "w"    *)
(* stands for one whose two bytes "w1" "w2" no merge joins, every other    *)
(* character is one byte.  The merge table is a small one with the shapes  *)
(* of cl100k_base: a letter pair, a space-prefixed word and the paragraph  *)
(* break.                                                                  *)
(***************************************************************************)
\* str.encode("utf-8"): the bytes of a text
RECURSIVE Utf8Encode(_)
Utf8Encode(s) ==
    IF s = << >> THEN << >>
    ELSE (IF Head(s) = "w" THEN <<"w1", "w2">> ELSE <<Head(s)>>)
         \o Utf8Encode(Tail(s))

\* bytes.decode("utf-8", errors="replace"): the text of a byte sequence
RECURSIVE Utf8Decode(_)
Utf8Decode(bytes) ==
    IF bytes = << >> THEN << >>
    ELSE IF Len(bytes) >= 2 /\ bytes[1] = "w1" /\ bytes[2] = "w2"
    THEN <<"w">> \o Utf8Decode(SubSeq(bytes, 3, Len(bytes)))
    ELSE IF Head(bytes) \in {"w1", "w2"}
    THEN <<"?">> \o Utf8Decode(Tail(bytes))
    ELSE <<Head(bytes)>> \o Utf8Decode(Tail(bytes))

Merges ==
    << << <<"a">>, <<"a">> >>,
       << <<" ">>, <<"a">> >>,
       << <<"\n">>, <<"\n">> >> >>

\* the rank of the pair of tokens (l, r): 0 when it is not in the table
MergeRank(l, r) ==
    LET hits == {k \in 1..Len(Merges) :
                    /\ Merges[k][1] = l
                    /\ Merges[k][2] = r}
    IN  IF hits = {} THEN 0 ELSE Min(hits)

RECURSIVE BytePairMerge(_)
BytePairMerge(toks) ==
    LET cand == {i \in 1..(Len(toks) - 1) : MergeRank(toks[i], toks[i + 1]) > 0}
    IN  IF cand = {} THEN toks
        ELSE LET best == Min({MergeRank(toks[i], toks[i + 1]) : i \in cand})
                 at == Min({i \in cand : MergeRank(toks[i], toks[i + 1]) = best})
             IN  BytePairMerge(SubSeq(toks, 1, at - 1)
                               \o <<toks[at] \o toks[at + 1]>>
                               \o SubSeq(toks, at + 2, Len(toks)))

\* tokenizer.encode(text): the token sequence of a text
Encode(s) ==
    LET bytes == Utf8Encode(s)
    IN  BytePairMerge([i \in 1..Len(bytes) |-> <<bytes[i]>>])

\* the bytes of a token sequence
RECURSIVE TokenBytes(_)
TokenBytes(toks) ==
    IF toks = << >> THEN << >> ELSE Head(toks) \o TokenBytes(Tail(toks))

\* tokenizer.decode(tokens): the text of a token sequence
Decode(toks) == Utf8Decode(TokenBytes(toks))

TokenCount(s) == Len(Encode(s))

(***************************************************************************)
(* RecursiveCharacterTextSplitter._split_text                              *)
(***************************************************************************)
\* the token-level hard slice with windows one token too long
TokenWindows_OneTooLong(s, size, overlap) ==
    LET tokens == Encode(s)
        starts == PyRange(Len(tokens), size - overlap)
    IN  [k \in 1..Len(starts) |->
            Decode(PySlice(tokens, starts[k], starts[k] + size + 1))]

\* the windows of the token-level hard slice (lines 47-52 and 105-110)
TokenWindows(s, size, overlap) ==
    LET tokens == Encode(s)
        starts == PyRange(Len(tokens), size - overlap)
    IN  IF size - overlap = 0 THEN <<RangeError>>
        ELSE [k \in 1..Len(starts) |->
                 Decode(PySlice(tokens, starts[k], starts[k] + size))]

\* the character-level slice taken when no separator is left (line 36)
CharWindows(s, size, overlap) ==
    LET starts == PyRange(Len(s), size - overlap)
    IN  IF size - overlap = 0 THEN <<RangeError>>
        ELSE [k \in 1..Len(starts) |-> PySlice(s, starts[k], starts[k] + size)]

\* lines 83-100: each chunk after the first is prefixed with the tail of the
\* refined chunk before it, when the combination fits
RECURSIVE RefineChunks(_, _, _, _, _)
RefineChunks(chunks, final, sep, size, overlap) ==
    IF chunks = << >> THEN final
    ELSE LET current_chunk == Head(chunks)
         IN  IF final = << >>
             THEN RefineChunks(Tail(chunks), <<current_chunk>>, sep, size, overlap)
             ELSE LET prev_chunk_tokens == Encode(final[Len(final)])
                      from == IF Len(prev_chunk_tokens) - overlap > 0
                              THEN Len(prev_chunk_tokens) - overlap ELSE 0
                      overlap_text == Decode(PySlice(prev_chunk_tokens, from,
                                                     Len(prev_chunk_tokens)))
                      combined_text == IF overlap_text # << >>
                                       THEN overlap_text \o sep \o current_chunk
                                       ELSE current_chunk
                  IN  IF TokenCount(combined_text) <= size
                      THEN RefineChunks(Tail(chunks), Append(final, combined_text),
                                        sep, size, overlap)
                      ELSE RefineChunks(Tail(chunks), Append(final, current_chunk),
                                        sep, size, overlap)

\* lines 103-112: a chunk that is still too big is cut into token windows
RECURSIVE ReSplitChunks(_, _, _)
ReSplitChunks(final, size, overlap) ==
    IF final = << >> THEN << >>
    ELSE (IF TokenCount(Head(final)) > size
          THEN TokenWindows(Head(final), size, overlap)
          ELSE <<Head(final)>>)
         \o ReSplitChunks(Tail(final), size, overlap)

RECURSIVE SplitText(_, _, _, _)
RECURSIVE PackParts(_, _, _, _, _, _)

\* lines 56-80: the loop over the parts, chunks being the list built so far
PackParts(parts, chunks, sep, others, size, overlap) ==
    IF parts = << >> THEN chunks
    ELSE LET part == Head(parts)
             rest == Tail(parts)
             last == chunks[Len(chunks)]
             butlast == SubSeq(chunks, 1, Len(chunks) - 1)
         IN  IF part = << >>
             THEN PackParts(rest, chunks, sep, others, size, overlap)
             ELSE IF TokenCount(part) > size
             THEN PackParts(rest, chunks \o SplitText(part, others, size, overlap),
                            sep, others, size, overlap)
             ELSE IF chunks = << >> \/ TokenCount(last \o sep \o part) > size
             THEN PackParts(rest, Append(chunks, part), sep, others, size, overlap)
             ELSE IF TokenCount(last) + TokenCount(part) + TokenCount(sep) <= size
             THEN PackParts(rest, Append(butlast, last \o sep \o part),
                            sep, others, size, overlap)
             ELSE LET overlap_text == Decode(PyTail(Encode(last), overlap))
                  IN  IF TokenCount(overlap_text \o sep \o part) <= size
                      THEN PackParts(rest, Append(chunks, overlap_text \o sep \o part),
                                     sep, others, size, overlap)
                      ELSE PackParts(rest, Append(chunks, part),
                                     sep, others, size, overlap)

SplitText(s, seps, size, overlap) ==
    IF seps = << >> THEN CharWindows(s, size, overlap)
    ELSE LET current_separator == Head(seps)
             other_separators == Tail(seps)
         IN  IF current_separator = << >>
             THEN IF TokenCount(s) <= size THEN <<s>>
                  ELSE TokenWindows(s, size, overlap)
             ELSE LET parts == PySplit(s, current_separator)
                      chunks == PackParts(parts, << >>, current_separator,
                                          other_separators, size, overlap)
                      final_chunks == RefineChunks(chunks, << >>, current_separator,
                                                   size, overlap)
                  IN  ReSplitChunks(final_chunks, size, overlap)

\* RecursiveCharacterTextSplitter.split_document: the contents of the chunks
\* it returns (whitespace-only chunks dropped, the others stripped)
RECURSIVE StripNonBlank(_)
StripNonBlank(chunks) ==
    IF chunks = << >> THEN << >>
    ELSE (IF PyStrip(Head(chunks)) # << >> THEN <<PyStrip(Head(chunks))>> ELSE << >>)
         \o StripNonBlank(Tail(chunks))

SplitDocument(s, seps, size, overlap) ==
    StripNonBlank(SplitText(s, seps, size, overlap))

(***************************************************************************)
(* The splitter's inputs.                                                   *)
(***************************************************************************)
Chars == {"a", " ", "\n", "w"}

Texts == UNION {[1..n -> Chars] : n \in 0..MaxTextLen}

\* __init__'s default list, create_workitem_chunks' list, and a list a caller
\* may pass that does not end in the empty separator
SeparatorLists ==
    { << <<"\n", "\n">>, <<"\n">>, <<" ">>, << >>, << >> >>,
      << <<"\n", "\n">>, <<"\n">>, <<" ">>, << >> >>,
      << <<"\n">> >> }

InitSplit ==
    /\ text \in Texts
    /\ chunk_size \in 1..MaxChunkSize
    /\ chunk_overlap \in 0..(MaxChunkSize - 1)
    /\ chunk_overlap < chunk_size
    /\ separators \in SeparatorLists
    /\ splitPc = "idle"
    /\ split_out = << >>
    /\ frames = << >>
    /\ embeddings_file = << >>
    /\ embeddings_matrix = << >>
    /\ chunk_metadata = << >>
    /\ req = [op |-> "none"]
    /\ result = [raised |-> FALSE, value |-> << >>]
    /\ calls = << >>
    /\ ThreadsIdle

\* a call of _split_text(text, self.separators); nothing catches a ValueError
SplitTextCall ==
    /\ splitPc = "idle"
    /\ LET chunks == SplitText(text, separators, chunk_size, chunk_overlap)
       IN  IF Raised(chunks)
           THEN splitPc' = "raised" /\ split_out' = << >>
           ELSE splitPc' = "split_text" /\ split_out' = chunks
    /\ UNCHANGED <<text, chunk_size, chunk_overlap, separators, frames>>
    /\ UNCHANGED <<storeVars, reqVars, threadVars>>

\* a call of split_document(text, filepath)
SplitDocumentCall ==
    /\ splitPc = "idle"
    /\ LET chunks == SplitDocument(text, separators, chunk_size, chunk_overlap)
       IN  IF Raised(chunks)
           THEN splitPc' = "raised" /\ split_out' = << >>
           ELSE splitPc' = "split_document" /\ split_out' = chunks
    /\ UNCHANGED <<text, chunk_size, chunk_overlap, separators, frames>>
    /\ UNCHANGED <<storeVars, reqVars, threadVars>>

NextSplit == SplitTextCall \/ SplitDocumentCall

SpecSplit == InitSplit /\ [][NextSplit]_vars

ScoreScale == 60 * 100

\* a work item id as JSON holds it: a number or a string
IntId(n) == [form |-> "int", val |-> n]

StrId(n) == [form |-> "str", val |-> n]

\* str(workitem_id)
PyStr(id) == [form |-> "str", val |-> id.val]

\* s[:k]: a negative k counts from the end
PyPrefix(s, k) ==
    IF k >= 0 THEN PySlice(s, 0, k)
    ELSE IF Len(s) + k <= 0 THEN << >> ELSE SubSeq(s, 1, Len(s) + k)

RECURSIVE SumSeq(_)
SumSeq(s) == IF s = << >> THEN 0 ELSE Head(s) + SumSeq(Tail(s))

SeqMax(s) == Max({s[i] : i \in 1..Len(s)})

\* load_embeddings, lines 68-84: the records with a non-empty embedding
RECURSIVE ValidRecords(_)
ValidRecords(data) ==
    IF data = << >> THEN << >>
    ELSE (IF Head(data).embedding # << >> THEN <<Head(data)>> ELSE << >>)
         \o ValidRecords(Tail(data))

\* np.array(embeddings_list) raises for rows of different lengths; the except
\* clause of load_embeddings then leaves matrix and metadata as they were
Ragged(valid) ==
    \E i, j \in 1..Len(valid) : Len(valid[i].embedding) # Len(valid[j].embedding)

\* self.embeddings_matrix after __init__ has run load_embeddings on a file
\* (<< >> for None)
LoadedMatrix(data) ==
    LET valid == ValidRecords(data)
    IN  IF Ragged(valid) THEN << >>
        ELSE [i \in 1..Len(valid) |-> valid[i].embedding]

\* self.chunk_metadata after __init__ has run load_embeddings on a file
LoadedMetadata(data) ==
    LET valid == ValidRecords(data)
    IN  IF Ragged(valid) THEN << >>
        ELSE [i \in 1..Len(valid) |->
                 [chunk_id |-> valid[i].chunk_id,
                  workitem_id |-> valid[i].workitem_id,
                  chunk_index |-> valid[i].chunk_index]]

\* get_query_embedding: None (ok = FALSE) for a blank query, without a call,
\* and for a failed call; otherwise the vector the provider returned
GetQueryEmbedding(query, provider) ==
    IF query = "blank" THEN [ok |-> FALSE, vec |-> << >>, called |-> FALSE]
    ELSE IF ~provider.ok THEN [ok |-> FALSE, vec |-> << >>, called |-> TRUE]
    ELSE [ok |-> TRUE, vec |-> provider.vec, called |-> TRUE]

Dot(v1, v2) == SumSeq([i \in 1..Len(v1) |-> v1[i] * v2[i]])

\* np.linalg.norm of a vector of the model
Norm(v) == CHOOSE n \in 0..5 : n * n = Dot(v, v)

\* cosine_similarity; np.dot raises ValueError when the lengths differ
CosineSimilarity(vec1, vec2) ==
    IF Norm(vec1) = 0 \/ Norm(vec2) = 0 THEN 0
    ELSE (Dot(vec1, vec2) * ScoreScale) \div (Norm(vec1) * Norm(vec2))

\* list.sort(key, reverse=True) as a list of positions: a stable sort, so each
\* position is put behind every position already placed whose key is not
\* smaller.  Keys are tuples, compared as Python compares tuples.
RECURSIVE TupleLess(_, _)
TupleLess(a, b) ==
    /\ a # << >>
    /\ \/ Head(a) < Head(b)
       \/ Head(a) = Head(b) /\ TupleLess(Tail(a), Tail(b))

\* an unstable descending sort: equal keys come out in reverse
InsertDesc_Unstable(sorted, i, keys) ==
    LET before == {k \in 1..Len(sorted) : TupleLess(keys[i], keys[sorted[k]])}
        n == Cardinality(before)
    IN  SubSeq(sorted, 1, n) \o <<i>> \o SubSeq(sorted, n + 1, Len(sorted))

InsertDesc(sorted, i, keys) ==
    LET before == {k \in 1..Len(sorted) : ~TupleLess(keys[sorted[k]], keys[i])}
        n == Cardinality(before)
    IN  SubSeq(sorted, 1, n) \o <<i>> \o SubSeq(sorted, n + 1, Len(sorted))

RECURSIVE SortDescFrom(_, _, _)
SortDescFrom(sorted, i, keys) ==
    IF i > Len(keys) THEN sorted
    ELSE SortDescFrom(InsertDesc(sorted, i, keys), i + 1, keys)

SortDesc(keys) == SortDescFrom(<< >>, 1, keys)

\* similarity_search, lines 183-187: the record at position i passes the filter
PassesFilter(meta, i, workitem_filter) ==
    \/ ~workitem_filter.given
    \/ workitem_filter.ids = << >>
    \/ \E k \in 1..Len(workitem_filter.ids) :
          workitem_filter.ids[k] = PyStr(meta[i].workitem_id)

\* a scan that forgets the threshold
PassesThreshold_None(similarity, similarity_threshold) == TRUE

\* similarity_search, line 190
PassesThreshold(similarity, similarity_threshold) ==
    similarity >= similarity_threshold

\* similarity_search, lines 178-198: the matches in index order
RECURSIVE ScanMatches(_, _, _, _, _, _)
ScanMatches(matrix, meta, i, qvec, similarity_threshold, workitem_filter) ==
    IF i > Len(matrix) THEN << >>
    ELSE LET similarity == CosineSimilarity(qvec, matrix[i])
         IN  (IF /\ PassesFilter(meta, i, workitem_filter)
                 /\ PassesThreshold(similarity, similarity_threshold)
              THEN << [index |-> i - 1,
                       similarity |-> similarity,
                       chunk_id |-> meta[i].chunk_id,
                       workitem_id |-> meta[i].workitem_id] >>
              ELSE << >>)
             \o ScanMatches(matrix, meta, i + 1, qvec, similarity_threshold,
                            workitem_filter)

\* similarity_search, line 202: similarities[:top_k]
TopSlice(similarities, top_k) == PyPrefix(similarities, top_k)

\* similarity_search: [raised, value, called]; called tells whether the
\* Embedding capability was called
SimilaritySearch(matrix, meta, query, provider, top_k, similarity_threshold, workitem_filter) ==
    IF matrix = << >> \/ Len(meta) = 0
    THEN [raised |-> FALSE, value |-> << >>, called |-> FALSE]
    ELSE LET query_embedding == GetQueryEmbedding(query, provider)
         IN  IF ~query_embedding.ok
             THEN [raised |-> FALSE, value |-> << >>,
                   called |-> query_embedding.called]
             ELSE IF \E i \in 1..Len(matrix) :
                        Len(matrix[i]) # Len(query_embedding.vec)
             THEN [raised |-> TRUE, value |-> << >>, called |-> TRUE]
             ELSE LET similarities ==
                          ScanMatches(matrix, meta, 1, query_embedding.vec,
                                      similarity_threshold, workitem_filter)
                      order == SortDesc([k \in 1..Len(similarities) |->
                                            <<similarities[k].similarity>>])
                      sorted == [k \in 1..Len(order) |-> similarities[order[k]]]
                  IN  [raised |-> FALSE,
                       value |-> TopSlice(sorted, top_k),
                       called |-> TRUE]

\* get_related_workitems, lines 249-262: the str() ids of the matches in
\* first-seen order (the key order of the dict)
RECURSIVE FirstSeenIds(_, _)
FirstSeenIds(results, seen) ==
    IF results = << >> THEN seen
    ELSE LET workitem_id == PyStr(Head(results).workitem_id)
         IN  IF \E k \in 1..Len(seen) : seen[k] = workitem_id
             THEN FirstSeenIds(Tail(results), seen)
             ELSE FirstSeenIds(Tail(results), Append(seen, workitem_id))

\* the matches of one work item, in the order of the search result
RECURSIVE ChunksOf(_, _)
ChunksOf(results, workitem_id) ==
    IF results = << >> THEN << >>
    ELSE (IF PyStr(Head(results).workitem_id) = workitem_id
          THEN << [chunk_id |-> Head(results).chunk_id,
                   similarity |-> Head(results).similarity] >>
          ELSE << >>)
         \o ChunksOf(Tail(results), workitem_id)

\* an entry whose scores are those of every match, not of the work item's own
WorkitemResult_AllScores(results, workitem_id) ==
    LET relevant_chunks == ChunksOf(results, workitem_id)
        scores == [k \in 1..Len(results) |-> results[k].similarity]
    IN  [workitem_id |-> workitem_id,
         max_similarity |-> SeqMax(scores),
         avg_similarity |-> SumSeq(scores) \div Len(scores),
         chunk_count |-> Len(scores),
         relevant_chunks |-> relevant_chunks]

\* get_related_workitems, lines 266-276: one entry per work item
WorkitemResult(results, workitem_id) ==
    LET relevant_chunks == ChunksOf(results, workitem_id)
        scores == [k \in 1..Len(relevant_chunks) |-> relevant_chunks[k].similarity]
    IN  [workitem_id |-> workitem_id,
         max_similarity |-> SeqMax(scores),
         avg_similarity |-> SumSeq(scores) \div Len(scores),
         chunk_count |-> Len(scores),
         relevant_chunks |-> relevant_chunks]

\* the sort key with the average left out
RelatedSortKey_MaxOnly(item) == <<item.max_similarity>>

\* get_related_workitems, line 279: the sort key
RelatedSortKey(item) == <<item.max_similarity, item.avg_similarity>>

\* get_related_workitems, lines 245-279: the sorted entries of a search result
AggregateByWorkitem(all_results) ==
    LET ids == FirstSeenIds(all_results, << >>)
        workitem_results == [k \in 1..Len(ids) |-> WorkitemResult(all_results, ids[k])]
        order == SortDesc([k \in 1..Len(ids) |-> RelatedSortKey(workitem_results[k])])
    IN  [k \in 1..Len(order) |-> workitem_results[order[k]]]

\* get_related_workitems, line 243: the top_k of its search
RelatedSearchTopK == 50

\* get_related_workitems, line 243: the search it aggregates
RelatedSearch(matrix, meta, query, provider) ==
    SimilaritySearch(matrix, meta, query, provider, RelatedSearchTopK, 0,
                     [given |-> FALSE, ids |-> << >>])

\* get_related_workitems
GetRelatedWorkitems(matrix, meta, query, provider, top_k) ==
    LET search == RelatedSearch(matrix, meta, query, provider)
    IN  IF search.raised THEN search
        ELSE [raised |-> FALSE,
              value |-> PyPrefix(AggregateByWorkitem(search.value), top_k),
              called |-> search.called]

(***************************************************************************)
(* ado_qa_system.py: ADOQASystem                                           *)
(***************************************************************************)
\* a score given in hundredths, in units of 1/ScoreScale
Hundredths(h) == h * (ScoreScale \div 100)

\* _calculate_confidence, lines 221 and 223: 0.8, 0.6 and 0.6, 0.4
HighMaxSimilarity == Hundredths(80)

HighAvgSimilarity == Hundredths(60)

MediumMaxSimilarity == Hundredths(60)

MediumAvgSimilarity == Hundredths(40)

\* answer_question, line 52: the default similarity_threshold, 0.3
AnswerDefaultThreshold == Hundredths(30)

\* _calculate_confidence with the first test strict
CalculateConfidence_Strict(similarities) ==
    IF similarities = << >> THEN "low"
    ELSE LET max_similarity == SeqMax(similarities)
             avg_similarity == SumSeq(similarities) \div Len(similarities)
         IN  IF max_similarity > HighMaxSimilarity /\ avg_similarity >= HighAvgSimilarity
             THEN "high"
             ELSE IF /\ max_similarity >= MediumMaxSimilarity
                     /\ avg_similarity >= MediumAvgSimilarity
             THEN "medium"
             ELSE "low"

\* _calculate_confidence, on the similarity scores of the chunks.  The mean is
\* only compared with whole numbers of units, which the rounding down of the
\* division does not change.
CalculateConfidence(similarities) ==
    IF similarities = << >> THEN "low"
    ELSE LET max_similarity == SeqMax(similarities)
             avg_similarity == SumSeq(similarities) \div Len(similarities)
         IN  IF max_similarity >= HighMaxSimilarity /\ avg_similarity >= HighAvgSimilarity
             THEN "high"
             ELSE IF /\ max_similarity >= MediumMaxSimilarity
                     /\ avg_similarity >= MediumAvgSimilarity
             THEN "medium"
             ELSE "low"

\* _generate_response: the text of the model, or the error string of the
\* except clause that caught the failure of the Generation capability
GenerateResponse(generation) ==
    CASE generation = "ok" -> "generated text"
      [] generation = "APIConnectionError" -> "Connection error to GPT model"
      [] generation = "RateLimitError" -> "Rate limit exceeded for GPT model"
      [] generation = "APIStatusError" -> "Azure OpenAI GPT API error"
      [] OTHER -> "An unexpected error occurred during response generation"

\* round(similarity, 3), in thousandths (halves do not occur in the model)
Round3(similarity) == (similarity * 1000 + ScoreScale \div 2) \div ScoreScale

\* _format_sources
FormatSources(chunks) ==
    [k \in 1..Len(chunks) |->
        [workitem_id |-> chunks[k].workitem_id,
         chunk_id |-> chunks[k].chunk_id,
         similarity |-> Round3(chunks[k].similarity)]]

\* answer_question without the early return for an empty search result
NoChunks_Never(retrieved_chunks) == FALSE

\* answer_question, line 78: not retrieved_chunks
NoChunks(retrieved_chunks) == retrieved_chunks = << >>

\* answer_question: what it returns (it catches every exception), whether the
\* Embedding capability was called and whether the Generation capability was
AnswerQuestion(matrix, meta, query, provider, generation, top_k, similarity_threshold) ==
    LET search == SimilaritySearch(matrix, meta, query, provider, top_k,
                                   similarity_threshold,
                                   [given |-> FALSE, ids |-> << >>])
    IN  IF search.raised
        THEN [value |-> [answer |-> "An error occurred while processing your question",
                         sources |-> << >>,
                         confidence |-> "error",
                         query |-> query],
              called |-> search.called,
              generated |-> FALSE]
        ELSE IF NoChunks(search.value)
        THEN [value |-> [answer |-> "I couldn't find any relevant work items",
                         sources |-> << >>,
                         confidence |-> "low",
                         query |-> query],
              called |-> search.called,
              generated |-> FALSE]
        ELSE [value |-> [answer |-> GenerateResponse(generation),
                         sources |-> FormatSources(search.value),
                         confidence |->
                             CalculateConfidence([k \in 1..Len(search.value) |->
                                                     search.value[k].similarity]),
                         query |-> query,
                         num_sources |-> Len(search.value)],
              called |-> search.called,
              generated |-> TRUE]

(***************************************************************************)
(* The store after construction and the requests made of it.               *)
(***************************************************************************)
WorkitemIds == {IntId(1), StrId(1), StrId(2)}

Embeddings == {<<0, 1>>, <<1, 0>>}

\* the files: up to MaxRecords records, chunk ids distinct
Files ==
    UNION {[1..n -> WorkitemIds \X Embeddings] : n \in 0..MaxRecords}

\* the records of a file: chunk ids distinct, and the chunk_index of the
\* metadata counting the records of the work item in file order
FileRecords(f) ==
    [i \in 1..Len(f) |->
        [chunk_id |-> i, workitem_id |-> f[i][1], embedding |-> f[i][2],
         chunk_index |-> Cardinality({j \in 1..(i - 1) :
                                         PyStr(f[j][1]) = PyStr(f[i][1])})]]

\* a query is blank (empty once stripped) or has text
Queries == {"blank", "text"}

\* what the Embedding capability does when it is called: one of its errors,
\* or a vector, which may have another length than the vectors of the file
Providers ==
    {[ok |-> FALSE, vec |-> << >>]}
    \cup {[ok |-> TRUE, vec |-> v] : v \in {<<3, 4>>, <<0, 0>>, <<1>>}}

\* what the Generation capability does when it is called
Generations ==
    {"ok", "APIConnectionError", "RateLimitError", "APIStatusError", "Exception"}

\* the outcomes drawn for a query: a blank query never reaches the capability
ProvidersFor(query) ==
    IF query = "blank" THEN {[ok |-> FALSE, vec |-> << >>]} ELSE Providers

\* top_k: a negative count, one, and the default of similarity_search
TopKs == {-1, 1, 5}

\* similarity_threshold of similarity_search: its default 0.0, 0.8, and 1.5,
\* which no cosine reaches
SearchThresholds == {0, Hundredths(80), Hundredths(150)}

\* similarity_threshold of answer_question: its default 0.3, and 0.8
AnswerThresholds == {AnswerDefaultThreshold, Hundredths(80)}

\* score lists for _calculate_confidence: the thresholds and their neighbours
SampleScores == {Hundredths(h) : h \in {0, 39, 40, 59, 60, 79, 80, 100}}

SimilarityLists == UNION {[1..n -> SampleScores] : n \in 0..MaxRecords}

Filters ==
    {[given |-> FALSE, ids |-> << >>]}
    \cup {[given |-> TRUE, ids |-> l] :
            l \in {<< >>, <<StrId(1)>>, <<IntId(1)>>}}

EmbeddingCalls(called, provider) ==
    IF called THEN << [cap |-> "embedding", ok |-> provider.ok, vec |-> provider.vec] >>
    ELSE << >>

GenerationCalls(generated, generation) ==
    IF generated THEN << [cap |-> "generation", outcome |-> generation] >>
    ELSE << >>

Init ==
    /\ text = << >>
    /\ chunk_size = 1
    /\ chunk_overlap = 0
    /\ separators = << << >> >>
    /\ splitPc = "idle"
    /\ split_out = << >>
    /\ frames = << >>
    /\ \E f \in Files :
          /\ embeddings_file = FileRecords(f)
          /\ embeddings_matrix = LoadedMatrix(FileRecords(f))
          /\ chunk_metadata = LoadedMetadata(FileRecords(f))
    /\ req = [op |-> "none"]
    /\ result = [raised |-> FALSE, value |-> << >>]
    /\ calls = << >>
    /\ ThreadsIdle

\* a search that throws its index away when the request fails
SimilaritySearchCall_ResetsOnFailure ==
    \E query \in Queries, top_k \in TopKs,
       similarity_threshold \in SearchThresholds, workitem_filter \in Filters :
      \E provider \in ProvidersFor(query) :
        LET r == SimilaritySearch(embeddings_matrix, chunk_metadata, query, provider,
                                  top_k, similarity_threshold, workitem_filter)
        IN  /\ req.op = "none"
            /\ req' = [op |-> "similarity_search",
                       query |-> query,
                       top_k |-> top_k,
                       similarity_threshold |-> similarity_threshold,
                       workitem_filter |-> workitem_filter]
            /\ result' = [raised |-> r.raised, value |-> r.value]
            /\ calls' = EmbeddingCalls(r.called, provider)
            /\ IF r.raised \/ (r.called /\ ~provider.ok)
               THEN embeddings_matrix' = << >> /\ chunk_metadata' = << >>
               ELSE UNCHANGED <<embeddings_matrix, chunk_metadata>>
            /\ UNCHANGED <<splitVars, threadVars, embeddings_file>>

\* a call of similarity_search
SimilaritySearchCall ==
    \E query \in Queries, top_k \in TopKs,
       similarity_threshold \in SearchThresholds, workitem_filter \in Filters :
      \E provider \in ProvidersFor(query) :
        LET r == SimilaritySearch(embeddings_matrix, chunk_metadata, query, provider,
                                  top_k, similarity_threshold, workitem_filter)
        IN  /\ req.op = "none"
            /\ req' = [op |-> "similarity_search",
                       query |-> query,
                       top_k |-> top_k,
                       similarity_threshold |-> similarity_threshold,
                       workitem_filter |-> workitem_filter]
            /\ result' = [raised |-> r.raised, value |-> r.value]
            /\ calls' = EmbeddingCalls(r.called, provider)
            /\ UNCHANGED <<splitVars, threadVars, storeVars>>

\* a call of get_related_workitems
GetRelatedWorkitemsCall ==
    \E query \in Queries, top_k \in TopKs :
      \E provider \in ProvidersFor(query) :
        LET r == GetRelatedWorkitems(embeddings_matrix, chunk_metadata, query,
                                     provider, top_k)
        IN  /\ req.op = "none"
            /\ req' = [op |-> "get_related_workitems",
                       query |-> query,
                       top_k |-> top_k]
            /\ result' = [raised |-> r.raised, value |-> r.value]
            /\ calls' = EmbeddingCalls(r.called, provider)
            /\ UNCHANGED <<splitVars, threadVars, storeVars>>

\* a call of answer_question
AnswerQuestionCall ==
    \E query \in Queries, generation \in Generations,
       top_k \in TopKs, similarity_threshold \in AnswerThresholds :
      \E provider \in ProvidersFor(query) :
        LET r == AnswerQuestion(embeddings_matrix, chunk_metadata, query, provider,
                                generation, top_k, similarity_threshold)
        IN  /\ req.op = "none"
            /\ req' = [op |-> "answer_question",
                       query |-> query,
                       top_k |-> top_k,
                       similarity_threshold |-> similarity_threshold]
            /\ result' = [raised |-> FALSE, value |-> r.value]
            /\ calls' = EmbeddingCalls(r.called, provider)
                        \o GenerationCalls(r.generated, generation)
            /\ UNCHANGED <<splitVars, threadVars, storeVars>>

\* the caller has taken the result and goes on to its next request (the loop of
\* main over its questions): nothing of a request outlives it
NextRequest ==
    /\ req.op # "none"
    /\ req' = [op |-> "none"]
    /\ result' = [raised |-> FALSE, value |-> << >>]
    /\ calls' = << >>
    /\ UNCHANGED <<splitVars, threadVars, storeVars>>

\* a call of _calculate_confidence on chunks with the given scores
CalculateConfidenceCall ==
    \E similarities \in SimilarityLists :
        /\ req.op = "none"
        /\ req' = [op |-> "calculate_confidence", similarities |-> similarities]
        /\ result' = [raised |-> FALSE, value |-> CalculateConfidence(similarities)]
        /\ calls' = << >>
        /\ UNCHANGED <<splitVars, threadVars, storeVars>>

\* the searches of ADOVectorStore
NextSearch ==
    \/ SimilaritySearchCall
    \/ NextRequest

SpecSearch == Init /\ [][NextSearch]_vars

\* the aggregations of ADOVectorStore
NextRelated ==
    \/ GetRelatedWorkitemsCall
    \/ NextRequest

SpecRelated == Init /\ [][NextRelated]_vars

\* the requests of ADOQASystem
NextQA ==
    \/ AnswerQuestionCall
    \/ NextRequest

SpecQA == Init /\ [][NextQA]_vars

\* _calculate_confidence on its own, on a store without records
InitConfidence ==
    /\ Init
    /\ embeddings_file = << >>

NextConfidence ==
    \/ CalculateConfidenceCall
    \/ NextRequest

SpecConfidence == InitConfidence /\ [][NextConfidence]_vars

(***************************************************************************)
(* The claims about similarity_search and get_related_workitems.           *)
(***************************************************************************)
NoFilter == [given |-> FALSE, ids |-> << >>]

\* what the Embedding capability did in the request, read from the calls made
CalledProvider ==
    IF calls # << >> /\ calls[1].cap = "embedding"
    THEN [ok |-> calls[1].ok, vec |-> calls[1].vec]
    ELSE [ok |-> FALSE, vec |-> << >>]

IsSearch == req.op = "similarity_search" /\ ~result.raised

\* C2: every match similarity_search returns scores at least the
\* similarity_threshold of the call, by its similarity field and by the cosine
\* of the query vector and the record's vector.
C2_MatchesReachThreshold ==
    IsSearch =>
        \A k \in 1..Len(result.value) :
            /\ result.value[k].similarity >= req.similarity_threshold
            /\ CosineSimilarity(CalledProvider.vec,
                                embeddings_matrix[result.value[k].index + 1])
                   >= req.similarity_threshold

\* a search that returned a match and left out a record below the threshold
C2_Witness ==
    /\ IsSearch
    /\ result.value # << >>
    /\ ~req.workitem_filter.given
    /\ \E i \in 1..Len(embeddings_matrix) :
          CosineSimilarity(CalledProvider.vec, embeddings_matrix[i])
              < req.similarity_threshold

\* C3: similarity_search returns at most top_k matches, for every top_k.
C3_AtMostTopK ==
    IsSearch /\ result.value # << >> => Len(result.value) <= req.top_k

\* C4: the matches are in descending order of score, and matches of equal
\* score are in the order of their positions in the index.
C4_DescendingStable ==
    IsSearch =>
        \A k \in 1..(Len(result.value) - 1) :
            \/ result.value[k].similarity > result.value[k + 1].similarity
            \/ /\ result.value[k].similarity = result.value[k + 1].similarity
               /\ result.value[k].index < result.value[k + 1].index

\* a result with two matches of equal score above a match of lower score
C4_Witness ==
    /\ IsSearch
    /\ Len(result.value) >= 3
    /\ result.value[1].similarity = result.value[2].similarity
    /\ result.value[2].similarity > result.value[3].similarity

\* C5: when a workitem_filter is given, the empty one included, every match
\* belongs to a work item of the filter.
C5_MatchesWithinFilter ==
    IsSearch /\ req.workitem_filter.given =>
        \A k \in 1..Len(result.value) :
            \E j \in 1..Len(req.workitem_filter.ids) :
                PyStr(req.workitem_filter.ids[j]) = PyStr(result.value[k].workitem_id)

IsRelated == req.op = "get_related_workitems" /\ ~result.raised

\* the matches get_related_workitems aggregated in the request
AggregatedMatches ==
    RelatedSearch(embeddings_matrix, chunk_metadata, req.query, CalledProvider).value

\* the positions of the matches of work item id among the matches am
MatchesOf(am, id) ==
    {j \in 1..Len(am) : PyStr(am[j].workitem_id) = id}

\* the returned aggregates that hold the match at position j of am
AggregatesHolding(am, j) ==
    {k \in 1..Len(result.value) :
        \E c \in 1..Len(result.value[k].relevant_chunks) :
            result.value[k].relevant_chunks[c].chunk_id = am[j].chunk_id}

\* C6 as claimed: every aggregated match appears in exactly one returned
\* aggregate (for a top_k of at least one).
C6_EveryMatchInOneAggregate ==
    IsRelated /\ req.top_k >= 1 =>
        LET am == AggregatedMatches
        IN  \A j \in 1..Len(am) : Cardinality(AggregatesHolding(am, j)) = 1

\* C6 as amended: no match appears in two returned aggregates; a returned
\* aggregate holds exactly the matches of its work item, once each, its
\* chunk_count is their number, its max_similarity their maximum and its
\* avg_similarity their mean; and when the matches belong to at most top_k
\* work items every match appears in exactly one returned aggregate.
C6_AggregatesPartition ==
    IsRelated =>
        LET am == AggregatedMatches
        IN  /\ \A j \in 1..Len(am) : Cardinality(AggregatesHolding(am, j)) <= 1
            /\ \A k \in 1..Len(result.value) :
                  LET agg == result.value[k]
                      mine == MatchesOf(am, agg.workitem_id)
                  IN  /\ mine # {}
                      /\ \A j \in 1..Len(am) :
                            (j \in mine) <=> (k \in AggregatesHolding(am, j))
                      /\ Len(agg.relevant_chunks) = Cardinality(mine)
                      /\ agg.chunk_count = Cardinality(mine)
                      /\ \A j \in mine : am[j].similarity <= agg.max_similarity
                      /\ \E j \in mine : am[j].similarity = agg.max_similarity
                      /\ agg.avg_similarity * Cardinality(mine)
                             = SumSeq([c \in 1..Len(agg.relevant_chunks) |->
                                          agg.relevant_chunks[c].similarity])
                      /\ \A c \in 1..Len(agg.relevant_chunks) :
                            \E j \in mine :
                                /\ am[j].chunk_id = agg.relevant_chunks[c].chunk_id
                                /\ am[j].similarity = agg.relevant_chunks[c].similarity
            /\ Cardinality({PyStr(am[j].workitem_id) : j \in 1..Len(am)}) <= req.top_k
                  => \A j \in 1..Len(am) : Cardinality(AggregatesHolding(am, j)) = 1

\* two work items returned, one of them with two matches of different scores
\* stored under a number and under a string
C6_Witness ==
    /\ IsRelated
    /\ Len(result.value) = 2
    /\ LET am == AggregatedMatches
       IN  \E k \in 1..2 :
              /\ result.value[k].chunk_count = 2
              /\ result.value[k].max_similarity > result.value[k].avg_similarity
              /\ \E i, j \in MatchesOf(am, result.value[k].workitem_id) :
                    am[i].workitem_id # am[j].workitem_id

\* the position among the matches am at which a work item is first seen
FirstSeen(am, id) == Min(MatchesOf(am, id))

\* C7: the aggregates are in descending order of max_similarity, then of
\* avg_similarity, and aggregates equal in both are in first-seen order.
C7_AggregatesOrdered ==
    IsRelated =>
        LET am == AggregatedMatches
        IN  \A k \in 1..(Len(result.value) - 1) :
                LET a == result.value[k]
                    b == result.value[k + 1]
                IN  \/ a.max_similarity > b.max_similarity
                    \/ /\ a.max_similarity = b.max_similarity
                       /\ a.avg_similarity > b.avg_similarity
                    \/ /\ a.max_similarity = b.max_similarity
                       /\ a.avg_similarity = b.avg_similarity
                       /\ FirstSeen(am, a.workitem_id) < FirstSeen(am, b.workitem_id)

\* two aggregates of equal max_similarity, the one seen later ahead by its mean
C7_Witness ==
    /\ IsRelated
    /\ Len(result.value) = 2
    /\ result.value[1].max_similarity = result.value[2].max_similarity
    /\ result.value[1].avg_similarity > result.value[2].avg_similarity
    /\ LET am == AggregatedMatches
       IN  FirstSeen(am, result.value[1].workitem_id)
               > FirstSeen(am, result.value[2].workitem_id)

(***************************************************************************)
(* The claims about answer_question.                                       *)
(***************************************************************************)
IsAnswer == req.op = "answer_question"

\* the search answer_question made in the request
AnswerSearch ==
    SimilaritySearch(embeddings_matrix, chunk_metadata, req.query, CalledProvider,
                     req.top_k, req.similarity_threshold, NoFilter)

EmbeddingFailed ==
    \E c \in 1..Len(calls) : calls[c].cap = "embedding" /\ ~calls[c].ok

GenerationCalled == \E c \in 1..Len(calls) : calls[c].cap = "generation"

GenerationFailed ==
    \E c \in 1..Len(calls) : calls[c].cap = "generation" /\ calls[c].outcome # "ok"

\* C8: when the embedding call fails or the search returns no match,
\* answer_question returns empty sources and confidence "low", raises nothing
\* and does not call the Generation capability.
C8_EmptySearchIsLow ==
    IsAnswer /\ (EmbeddingFailed \/ LET s == AnswerSearch
                                    IN  ~s.raised /\ s.value = << >>) =>
        /\ ~result.raised
        /\ result.value.sources = << >>
        /\ result.value.confidence = "low"
        /\ ~GenerationCalled

\* the embedding call failed on a store that holds records
C8_Witness ==
    /\ IsAnswer
    /\ EmbeddingFailed
    /\ Len(chunk_metadata) > 0
    /\ result.value.confidence = "low"

\* C9: when the search returned a match and the Generation call fails, no
\* exception escapes, the answer is an error string and confidence is "error".
C9_GenerationFailureIsError ==
    IsAnswer /\ AnswerSearch.value # << >> /\ GenerationFailed =>
        /\ ~result.raised
        /\ result.value.answer # "generated text"
        /\ result.value.confidence = "error"

(***************************************************************************)
(* The claim about _calculate_confidence.                                  *)
(***************************************************************************)
\* the tiers as the claim states them, the mean compared without dividing
ClaimedTier(similarities) ==
    LET n == Len(similarities)
    IN  IF n = 0 THEN "low"
        ELSE IF /\ \E k \in 1..n : similarities[k] * 100 >= 80 * ScoreScale
                /\ SumSeq(similarities) * 100 >= 60 * ScoreScale * n
        THEN "high"
        ELSE IF /\ \E k \in 1..n : similarities[k] * 100 >= 60 * ScoreScale
                /\ SumSeq(similarities) * 100 >= 40 * ScoreScale * n
        THEN "medium"
        ELSE "low"

\* C10: the confidence is "high" exactly when max >= 0.8 and mean >= 0.6,
\* otherwise "medium" exactly when max >= 0.6 and mean >= 0.4, otherwise
\* "low"; no chunks give "low".
C10_ConfidenceTiers ==
    req.op = "calculate_confidence" => result.value = ClaimedTier(req.similarities)

\* the boundary: a maximum of exactly 0.8 with a mean of exactly 0.6 is "high"
C10_Witness ==
    /\ req.op = "calculate_confidence"
    /\ Len(req.similarities) >= 2
    /\ SeqMax(req.similarities) = Hundredths(80)
    /\ SumSeq(req.similarities) = Hundredths(60) * Len(req.similarities)
    /\ result.value = "high"

(***************************************************************************)
(* ado_qa_system.py: search_workitems_by_criteria                          *)
(***************************************************************************)
\* what the Generation capability does when a criteria search calls it
CriteriaGenerations == {"ok", "RateLimitError"}

\* search_workitems_by_criteria: [raised, value, called, generated]; it has no
\* try of its own, so an exception of the search escapes it
SearchWorkitemsByCriteria(matrix, meta, criteria, provider, generation, top_k, group_by_workitem, similarity_threshold) ==
    IF group_by_workitem
    THEN LET related_workitems == GetRelatedWorkitems(matrix, meta, criteria, provider, top_k)
         IN  IF related_workitems.raised
             THEN [raised |-> TRUE, value |-> << >>,
                   called |-> related_workitems.called, generated |-> FALSE]
             ELSE IF related_workitems.value = << >>
             THEN [raised |-> FALSE,
                   value |-> [answer |-> "No work items found matching criteria",
                              workitems |-> << >>,
                              found |-> FALSE],
                   called |-> related_workitems.called,
                   generated |-> FALSE]
             ELSE [raised |-> FALSE,
                   value |-> [answer |-> GenerateResponse(generation),
                              workitems |-> related_workitems.value,
                              found |-> TRUE,
                              count |-> Len(related_workitems.value)],
                   called |-> related_workitems.called,
                   generated |-> TRUE]
    ELSE LET chunks == SimilaritySearch(matrix, meta, criteria, provider, top_k,
                                        similarity_threshold,
                                        [given |-> FALSE, ids |-> << >>])
         IN  IF chunks.raised
             THEN [raised |-> TRUE, value |-> << >>,
                   called |-> chunks.called, generated |-> FALSE]
             ELSE [raised |-> FALSE,
                   value |-> [answer |-> GenerateResponse(generation),
                              chunks |-> chunks.value,
                              found |-> Len(chunks.value) > 0,
                              count |-> Len(chunks.value)],
                   called |-> chunks.called,
                   generated |-> TRUE]

\* a call of search_workitems_by_criteria
SearchWorkitemsByCriteriaCall ==
    \E criteria \in Queries, generation \in CriteriaGenerations, top_k \in TopKs,
       group_by_workitem \in BOOLEAN, similarity_threshold \in AnswerThresholds :
      \E provider \in ProvidersFor(criteria) :
        LET r == SearchWorkitemsByCriteria(embeddings_matrix, chunk_metadata, criteria,
                                           provider, generation, top_k,
                                           group_by_workitem, similarity_threshold)
        IN  /\ req.op = "none"
            /\ req' = [op |-> "search_workitems_by_criteria",
                       query |-> criteria,
                       top_k |-> top_k,
                       group_by_workitem |-> group_by_workitem,
                       similarity_threshold |-> similarity_threshold]
            /\ result' = [raised |-> r.raised, value |-> r.value]
            /\ calls' = EmbeddingCalls(r.called, provider)
                        \o GenerationCalls(r.generated, generation)
            /\ UNCHANGED <<splitVars, threadVars, storeVars>>

\* the criteria searches of ADOQASystem
NextCriteria ==
    \/ SearchWorkitemsByCriteriaCall
    \/ NextRequest

SpecCriteria == Init /\ [][NextCriteria]_vars

IsCriteria == req.op = "search_workitems_by_criteria" /\ ~result.raised

\* what the retrieval of the criteria search yielded: the aggregates in the
\* grouped mode, the matches otherwise
CriteriaRetrieval ==
    IF req.group_by_workitem
    THEN GetRelatedWorkitems(embeddings_matrix, chunk_metadata, req.query,
                             CalledProvider, req.top_k).value
    ELSE SimilaritySearch(embeddings_matrix, chunk_metadata, req.query, CalledProvider,
                          req.top_k, req.similarity_threshold, NoFilter).value

\* C11: in both modes, when the retrieval yields no result,
\* search_workitems_by_criteria returns found False and does not call the
\* Generation capability.
C11_NoResultNoGeneration ==
    IsCriteria /\ CriteriaRetrieval = << >> =>
        /\ ~result.value.found
        /\ ~GenerationCalled

(***************************************************************************)
(* ado_qa_system.py: batch_answer_questions                                *)
(***************************************************************************)
MaxQuestions == 2

MaxBatchRecords == 2

\* answer_question, line 51: the default top_k
AnswerDefaultTopK == 5

\* what the capabilities do for one question of a batch
BatchProviders ==
    {[ok |-> FALSE, vec |-> << >>]}
    \cup {[ok |-> TRUE, vec |-> v] : v \in {<<3, 4>>, <<1>>}}

BatchGenerations == {"ok", "APIConnectionError"}

\* a question of a batch, with what the capabilities do when it is served
BatchQuestions ==
    {[query |-> "blank", provider |-> [ok |-> FALSE, vec |-> << >>],
      generation |-> "ok"]}
    \cup {[query |-> "text", provider |-> p, generation |-> g] :
            p \in BatchProviders, g \in BatchGenerations}

QuestionLists == UNION {[1..n -> BatchQuestions] : n \in 0..MaxQuestions}

\* a batch that gives up at the first question whose embedding call fails
RECURSIVE BatchAnswerQuestions_StopOnFailure(_, _, _)
BatchAnswerQuestions_StopOnFailure(matrix, meta, questions) ==
    IF questions = << >> THEN [results |-> << >>, calls |-> << >>]
    ELSE LET question == Head(questions)
             r == AnswerQuestion(matrix, meta, question.query, question.provider,
                                 question.generation, AnswerDefaultTopK,
                                 AnswerDefaultThreshold)
             rest == IF r.called /\ ~question.provider.ok
                     THEN [results |-> << >>, calls |-> << >>]
                     ELSE BatchAnswerQuestions_StopOnFailure(matrix, meta,
                                                             Tail(questions))
         IN  [results |-> <<r.value>> \o rest.results,
              calls |-> EmbeddingCalls(r.called, question.provider)
                        \o GenerationCalls(r.generated, question.generation)
                        \o rest.calls]

\* batch_answer_questions: the results in the order of the questions, and the
\* capability calls made on the way
RECURSIVE BatchAnswerQuestions(_, _, _)
BatchAnswerQuestions(matrix, meta, questions) ==
    IF questions = << >> THEN [results |-> << >>, calls |-> << >>]
    ELSE LET question == Head(questions)
             r == AnswerQuestion(matrix, meta, question.query, question.provider,
                                 question.generation, AnswerDefaultTopK,
                                 AnswerDefaultThreshold)
             rest == BatchAnswerQuestions(matrix, meta, Tail(questions))
         IN  [results |-> <<r.value>> \o rest.results,
              calls |-> EmbeddingCalls(r.called, question.provider)
                        \o GenerationCalls(r.generated, question.generation)
                        \o rest.calls]

\* a call of batch_answer_questions
BatchAnswerQuestionsCall ==
    \E questions \in QuestionLists :
        LET r == BatchAnswerQuestions(embeddings_matrix, chunk_metadata, questions)
        IN  /\ req.op = "none"
            /\ req' = [op |-> "batch_answer_questions", questions |-> questions]
            /\ result' = [raised |-> FALSE, value |-> r.results]
            /\ calls' = r.calls
            /\ UNCHANGED <<splitVars, threadVars, storeVars>>

\* the batch runs on a store of at most MaxBatchRecords records
InitBatch ==
    /\ Init
    /\ Len(embeddings_file) <= MaxBatchRecords

NextBatch ==
    \/ BatchAnswerQuestionsCall
    \/ NextRequest

SpecBatch == InitBatch /\ [][NextBatch]_vars

IsBatch == req.op = "batch_answer_questions"

\* what answer_question returns for question i of the batch, asked on its own
AnswerAlone(i) ==
    AnswerQuestion(embeddings_matrix, chunk_metadata, req.questions[i].query,
                   req.questions[i].provider, req.questions[i].generation,
                   AnswerDefaultTopK, AnswerDefaultThreshold)

\* C12: batch_answer_questions raises nothing and returns one result per
\* question, the i-th being what answer_question returns for the i-th question
\* whatever happened to the questions before it; the capability calls it makes
\* are those of the questions, in order.
C12_BatchAnswersEachQuestion ==
    IsBatch =>
        /\ ~result.raised
        /\ Len(result.value) = Len(req.questions)
        /\ \A i \in 1..Len(req.questions) :
              /\ result.value[i] = AnswerAlone(i).value
              /\ result.value[i].query = req.questions[i].query
        /\ Len(calls) = Cardinality({i \in 1..Len(req.questions) : AnswerAlone(i).called})
                        + Cardinality({i \in 1..Len(req.questions) : AnswerAlone(i).generated})

\* the embedding call of the first question failed, the generation call of the
\* second failed or not, and the last question got its answer from its matches
C12_Witness ==
    /\ IsBatch
    /\ Len(req.questions) >= 2
    /\ req.questions[1].query = "text"
    /\ ~req.questions[1].provider.ok
    /\ chunk_metadata # << >>
    /\ result.value[1].confidence = "low"
    /\ result.value[Len(result.value)].sources # << >>
    /\ result.value[Len(result.value)].answer = "generated text"

(***************************************************************************)
(* embedding.py: the ingestion run (main) and the store built on its file   *)
(***************************************************************************)
MaxChunksPerItem == 2

\* create_workitem_chunks, line 229: f"workitem_{workitem_id}_chunk_{i}"
ChunkId(workitem_id, i) == <<"workitem", PyStr(workitem_id).val, "chunk", i>>

\* the chunks create_workitem_chunks emits for one work item cut into n chunks
WorkitemChunks(workitem_id, n) ==
    [k \in 1..n |-> [chunk_id |-> ChunkId(workitem_id, k - 1),
                     workitem_id |-> workitem_id,
                     chunk_index |-> k - 1]]

\* the chunk files an ingestion run may read: the chunks of work item 1, then
\* those of work item "2"
ChunkFiles ==
    {WorkitemChunks(IntId(1), n1) \o WorkitemChunks(StrId(2), n2) :
        n1 \in 0..MaxChunksPerItem, n2 \in 0..1}

\* the vector the Embedding capability returns for a chunk
ChunkEmbedding == <<0, 1>>

\* whether the existing file can be read
Loads == {"ok", "fails"}

\* the dict of load_existing_embeddings as the list of its values: a chunk id
\* met again keeps its place and takes the later record
RECURSIVE DictValues(_, _)
DictValues(data, values) ==
    IF data = << >> THEN values
    ELSE LET item == Head(data)
             at == {k \in 1..Len(values) : values[k].chunk_id = item.chunk_id}
         IN  IF at = {} THEN DictValues(Tail(data), Append(values, item))
             ELSE DictValues(Tail(data),
                             [values EXCEPT ![CHOOSE k \in at : TRUE] = item])

\* load_existing_embeddings: empty when the file is missing or cannot be read
LoadExistingEmbeddings(data, load) ==
    IF load = "ok" THEN DictValues(data, << >>) ELSE << >>

\* main, line 212: the chunks whose chunk id is not in existing_embeddings
RECURSIVE NewChunks(_, _)
NewChunks(chunks, existing_embeddings) ==
    IF chunks = << >> THEN << >>
    ELSE (IF \E k \in 1..Len(existing_embeddings) :
                existing_embeddings[k].chunk_id = Head(chunks).chunk_id
          THEN << >> ELSE <<Head(chunks)>>)
         \o NewChunks(Tail(chunks), existing_embeddings)

\* generate_embeddings_for_chunks: a record for every chunk whose embedding
\* was generated (embedded holds their chunk ids), in the order of the chunks
RECURSIVE GenerateEmbeddingsForChunks(_, _)
GenerateEmbeddingsForChunks(chunks, embedded) ==
    IF chunks = << >> THEN << >>
    ELSE (IF Head(chunks).chunk_id \in embedded
          THEN << [chunk_id |-> Head(chunks).chunk_id,
                   workitem_id |-> Head(chunks).workitem_id,
                   embedding |-> ChunkEmbedding,
                   chunk_index |-> Head(chunks).chunk_index] >>
          ELSE << >>)
         \o GenerateEmbeddingsForChunks(Tail(chunks), embedded)

\* main of embedding.py: the records of the embeddings file after the run
IngestionMain(data, chunks, load, embedded) ==
    LET existing_embeddings == LoadExistingEmbeddings(data, load)
        new_chunks == NewChunks(chunks, existing_embeddings)
    IN  IF new_chunks = << >> THEN data
        ELSE existing_embeddings \o GenerateEmbeddingsForChunks(new_chunks, embedded)

\* a run of embedding.py on a chunk file
IngestionRunCall ==
    \E chunks \in ChunkFiles, load \in Loads :
      \E embedded \in SUBSET {chunks[k].chunk_id : k \in 1..Len(chunks)} :
        /\ req.op = "none"
        /\ req' = [op |-> "ingestion_run",
                   before |-> embeddings_file,
                   chunks |-> chunks,
                   load |-> load,
                   embedded |-> embedded]
        /\ embeddings_file' = IngestionMain(embeddings_file, chunks, load, embedded)
        /\ result' = [raised |-> FALSE, value |-> << >>]
        /\ calls' = << >>
        /\ UNCHANGED <<splitVars, threadVars, embeddings_matrix, chunk_metadata>>

\* ADOVectorStore(embeddings_file): a store is built on the file as it is now
ConstructStoreCall ==
    /\ req.op = "none"
    /\ req' = [op |-> "construct_store"]
    /\ embeddings_matrix' = LoadedMatrix(embeddings_file)
    /\ chunk_metadata' = LoadedMetadata(embeddings_file)
    /\ result' = [raised |-> FALSE, value |-> << >>]
    /\ calls' = << >>
    /\ UNCHANGED <<splitVars, threadVars, embeddings_file>>

\* a broken lookup that compares the ids as they are stored
RECURSIVE GetWorkitemChunks_RawIds(_, _)
GetWorkitemChunks_RawIds(meta, workitem_id) ==
    IF meta = << >> THEN << >>
    ELSE (IF Head(meta).workitem_id = workitem_id THEN <<Head(meta)>> ELSE << >>)
         \o GetWorkitemChunks_RawIds(Tail(meta), workitem_id)

\* get_workitem_chunks
RECURSIVE GetWorkitemChunks(_, _)
GetWorkitemChunks(meta, workitem_id) ==
    IF meta = << >> THEN << >>
    ELSE (IF PyStr(Head(meta).workitem_id) = PyStr(workitem_id)
          THEN <<Head(meta)>> ELSE << >>)
         \o GetWorkitemChunks(Tail(meta), workitem_id)

\* the ids asked for: those of the files, and one no file holds
LookupIds == WorkitemIds \cup {StrId(3)}

\* a call of get_workitem_chunks
GetWorkitemChunksCall ==
    \E workitem_id \in LookupIds :
        /\ req.op = "none"
        /\ req' = [op |-> "get_workitem_chunks", workitem_id |-> workitem_id]
        /\ result' = [raised |-> FALSE,
                      value |-> GetWorkitemChunks(chunk_metadata, workitem_id)]
        /\ calls' = << >>
        /\ UNCHANGED <<splitVars, threadVars, storeVars>>

\* ingestion starts without a file
InitIngest ==
    /\ Init
    /\ embeddings_file = << >>

NextIngest ==
    \/ IngestionRunCall
    \/ ConstructStoreCall
    \/ GetWorkitemChunksCall
    \/ NextRequest

SpecIngest == InitIngest /\ [][NextIngest]_vars

IsIngestion == req.op = "ingestion_run"

\* the chunks of the run that the file did not hold before it
RunNewChunks ==
    {k \in 1..Len(req.chunks) :
        \A i \in 1..Len(req.before) : req.before[i].chunk_id # req.chunks[k].chunk_id}

\* C13: after a run every record the file held before is still in it,
\* unaltered, no chunk id occurs twice, and a run with exactly one new chunk
\* (whose embedding is generated) leaves one record more.
C13_IngestionMerges ==
    IsIngestion =>
        /\ \A i \in 1..Len(req.before) :
              \E j \in 1..Len(embeddings_file) : embeddings_file[j] = req.before[i]
        /\ \A i, j \in 1..Len(embeddings_file) :
              embeddings_file[i].chunk_id = embeddings_file[j].chunk_id => i = j
        /\ (/\ Cardinality(RunNewChunks) = 1
            /\ \A k \in RunNewChunks : req.chunks[k].chunk_id \in req.embedded)
              => Len(embeddings_file) = Len(req.before) + 1

IsLookup == req.op = "get_workitem_chunks"

\* C19: get_workitem_chunks returns exactly the chunks of the index that the
\* work item owns, each once, in ascending chunk_index order, and nothing for
\* a work item the index does not hold.
C19_ChunksInOrdinalOrder ==
    IsLookup =>
        /\ \A i \in 1..Len(chunk_metadata) :
              (PyStr(chunk_metadata[i].workitem_id) = PyStr(req.workitem_id))
                  <=> (\E k \in 1..Len(result.value) : result.value[k] = chunk_metadata[i])
        /\ Len(result.value)
               = Cardinality({i \in 1..Len(chunk_metadata) :
                                 PyStr(chunk_metadata[i].workitem_id) = PyStr(req.workitem_id)})
        /\ \A k \in 1..(Len(result.value) - 1) :
              result.value[k].chunk_index < result.value[k + 1].chunk_index

(***************************************************************************)
(* chunker.py: the splitter under any chunk_overlap                        *)
(***************************************************************************)
\* __init__ takes any chunk_overlap; the texts are one character shorter than
\* those of SpecSplit
InitSplitConfig ==
    /\ text \in {t \in Texts : Len(t) < MaxTextLen}
    /\ chunk_size \in 1..MaxChunkSize
    /\ chunk_overlap \in 0..MaxChunkSize
    /\ separators \in SeparatorLists
    /\ splitPc = "idle"
    /\ split_out = << >>
    /\ frames = << >>
    /\ embeddings_file = << >>
    /\ embeddings_matrix = << >>
    /\ chunk_metadata = << >>
    /\ req = [op |-> "none"]
    /\ result = [raised |-> FALSE, value |-> << >>]
    /\ calls = << >>
    /\ ThreadsIdle

SpecSplitConfig == InitSplitConfig /\ [][NextSplit]_vars

\* C14: with chunk_overlap >= chunk_size the splitter returns no chunks but
\* fails, for every text.
C14_RejectsOverlapNotBelowSize ==
    splitPc # "idle" /\ chunk_overlap >= chunk_size => splitPc = "raised"

(***************************************************************************)
(* The claims about the arguments of similarity_search and answer_question. *)
(***************************************************************************)
\* C15: similarity_search called with top_k <= 0, or with a
\* similarity_threshold outside [-1, 1], fails and returns no match.
C15_RejectsBadSearchArguments ==
    /\ req.op = "similarity_search"
    /\ \/ req.top_k <= 0
       \/ req.similarity_threshold > ScoreScale
       \/ req.similarity_threshold < -ScoreScale
    => result.raised /\ result.value = << >>

\* C16: answer_question given a blank query fails, with a result that is not
\* the one of a search without matches, and calls no capability.
C16_RejectsBlankQuery ==
    IsAnswer /\ req.query = "blank" =>
        /\ calls = << >>
        /\ \/ result.raised
           \/ result.value.answer # "I couldn't find any relevant work items"

(***************************************************************************)
(* ado_vector_store.py: building the store on any file, and its statistics  *)
(***************************************************************************)
\* the embeddings a record of a file may hold: a vector, a vector of another
\* length, and none
LoadEmbeddings == {<<0, 1>>, <<1>>, << >>}

LoadFiles ==
    UNION {[1..n -> WorkitemIds \X LoadEmbeddings] : n \in 0..MaxRecords}

\* the set of line 325 built on the ids as they are stored, without str()
UniqueWorkitems_RawIds(meta) ==
    {meta[i].workitem_id : i \in 1..Len(meta)}

\* get_statistics, line 325: unique_workitems
UniqueWorkitems(meta) ==
    {PyStr(meta[i].workitem_id) : i \in 1..Len(meta)}

\* get_statistics, lines 328-331: the number of chunks counted for a work item
WorkitemChunkCount(meta, workitem_id) ==
    Cardinality({i \in 1..Len(meta) : PyStr(meta[i].workitem_id) = PyStr(workitem_id)})

\* round(n / d, 2) in hundredths (no mean of the model lies halfway between
\* two hundredths)
Round2(n, d) == (2 * 100 * n + d) \div (2 * d)

\* get_statistics
GetStatistics(matrix, meta) ==
    IF meta = << >> THEN [error |-> "No data loaded"]
    ELSE LET unique_workitems == UniqueWorkitems(meta)
             counts == {WorkitemChunkCount(meta, meta[i].workitem_id) : i \in 1..Len(meta)}
         IN  [total_chunks |-> Len(meta),
              unique_workitems |-> Cardinality(unique_workitems),
              avg_chunks_per_workitem |-> Round2(Len(meta), Cardinality(unique_workitems)),
              max_chunks_per_workitem |-> Max(counts),
              min_chunks_per_workitem |-> Min(counts),
              embedding_dimension |-> IF matrix # << >> THEN Len(matrix[1]) ELSE 0]

\* get_system_stats: the statistics and the status derived from them
GetSystemStats(matrix, meta) ==
    LET vector_stats == GetStatistics(matrix, meta)
    IN  [vector_stats |-> vector_stats,
         system_status |-> IF "error" \notin DOMAIN vector_stats
                           THEN "operational" ELSE "error"]

\* a call of get_statistics
GetStatisticsCall ==
    /\ req.op = "none"
    /\ req' = [op |-> "get_statistics"]
    /\ result' = [raised |-> FALSE,
                  value |-> GetStatistics(embeddings_matrix, chunk_metadata)]
    /\ calls' = << >>
    /\ UNCHANGED <<splitVars, threadVars, storeVars>>

\* a call of get_system_stats
GetSystemStatsCall ==
    /\ req.op = "none"
    /\ req' = [op |-> "get_system_stats"]
    /\ result' = [raised |-> FALSE,
                  value |-> GetSystemStats(embeddings_matrix, chunk_metadata)]
    /\ calls' = << >>
    /\ UNCHANGED <<splitVars, threadVars, storeVars>>

\* a store built on any file
InitLoad ==
    /\ text = << >>
    /\ chunk_size = 1
    /\ chunk_overlap = 0
    /\ separators = << << >> >>
    /\ splitPc = "idle"
    /\ split_out = << >>
    /\ frames = << >>
    /\ \E f \in LoadFiles :
          /\ embeddings_file = FileRecords(f)
          /\ embeddings_matrix = LoadedMatrix(FileRecords(f))
          /\ chunk_metadata = LoadedMetadata(FileRecords(f))
    /\ req = [op |-> "none"]
    /\ result = [raised |-> FALSE, value |-> << >>]
    /\ calls = << >>
    /\ ThreadsIdle

NextLoad ==
    \/ ConstructStoreCall
    \/ GetStatisticsCall
    \/ GetSystemStatsCall
    \/ NextRequest

SpecLoad == InitLoad /\ [][NextLoad]_vars

\* C17: building the store on a file in which some embedding has another
\* length than the first record's fails with an error the caller sees.
C17_RejectsDimensionMismatch ==
    /\ req.op = "construct_store"
    /\ \E i \in 1..Len(embeddings_file) :
          Len(embeddings_file[i].embedding) # Len(embeddings_file[1].embedding)
    => result.raised

\* the statistics a request returned
ReturnedStatistics ==
    IF req.op = "get_system_stats" THEN result.value.vector_stats ELSE result.value

\* C18: on an empty index get_statistics returns the "No data loaded" error and
\* no counts (and get_system_stats reports the status "error"); on a loaded
\* index it returns the number of chunks, the number of distinct work items,
\* and the smallest, the largest and the mean (to the nearest hundredth) number
\* of chunks per work item.
C18_StatisticsOfLoadedRecords ==
    req.op \in {"get_statistics", "get_system_stats"} =>
        LET stats == ReturnedStatistics
            ids == {PyStr(chunk_metadata[i].workitem_id) : i \in 1..Len(chunk_metadata)}
            OwnedBy(id) == {i \in 1..Len(chunk_metadata) :
                               PyStr(chunk_metadata[i].workitem_id) = id}
        IN  /\ ~result.raised
            /\ req.op = "get_system_stats" =>
                  (result.value.system_status = "error" <=> chunk_metadata = << >>)
            /\ IF chunk_metadata = << >>
               THEN stats = [error |-> "No data loaded"]
               ELSE /\ "error" \notin DOMAIN stats
                    /\ stats.total_chunks = Len(chunk_metadata)
                    /\ stats.unique_workitems = Cardinality(ids)
                    /\ \A id \in ids :
                          /\ Cardinality(OwnedBy(id)) <= stats.max_chunks_per_workitem
                          /\ Cardinality(OwnedBy(id)) >= stats.min_chunks_per_workitem
                    /\ \E id \in ids :
                          Cardinality(OwnedBy(id)) = stats.max_chunks_per_workitem
                    /\ \E id \in ids :
                          Cardinality(OwnedBy(id)) = stats.min_chunks_per_workitem
                    /\ LET diff == stats.avg_chunks_per_workitem * Cardinality(ids)
                                       - 100 * Len(chunk_metadata)
                       IN  2 * diff <= Cardinality(ids) /\ -2 * diff <= Cardinality(ids)

\* statistics of an index of two work items with different numbers of chunks,
\* one of them stored under a number and under a string
C18_Witness ==
    /\ req.op = "get_statistics"
    /\ "error" \notin DOMAIN result.value
    /\ result.value.unique_workitems = 2
    /\ result.value.max_chunks_per_workitem > result.value.min_chunks_per_workitem
    /\ \E i, j \in 1..Len(chunk_metadata) :
          /\ chunk_metadata[i].workitem_id # chunk_metadata[j].workitem_id
          /\ PyStr(chunk_metadata[i].workitem_id) = PyStr(chunk_metadata[j].workitem_id)

(***************************************************************************)
(* ado_qa_system.py: get_workitem_summary                                   *)
(***************************************************************************)
\* get_workitem_summary: the not-found result without a Generation call when
\* the store holds no chunk of the work item, else the summary generated from
\* its chunks
GetWorkitemSummary(meta, workitem_id, generation) ==
    LET chunks == GetWorkitemChunks(meta, workitem_id)
    IN  IF chunks = << >>
        THEN [value |-> [answer |-> "not found in the knowledge base",
                         workitem_id |-> workitem_id,
                         found |-> FALSE],
              generated |-> FALSE]
        ELSE [value |-> [answer |-> GenerateResponse(generation),
                         workitem_id |-> workitem_id,
                         found |-> TRUE,
                         chunk_count |-> Len(chunks)],
              generated |-> TRUE]

\* a call of get_workitem_summary
GetWorkitemSummaryCall ==
    \E workitem_id \in LookupIds, generation \in Generations :
        LET r == GetWorkitemSummary(chunk_metadata, workitem_id, generation)
        IN  /\ req.op = "none"
            /\ req' = [op |-> "get_workitem_summary", workitem_id |-> workitem_id]
            /\ result' = [raised |-> FALSE, value |-> r.value]
            /\ calls' = GenerationCalls(r.generated, generation)
            /\ UNCHANGED <<splitVars, threadVars, storeVars>>

NextSummary ==
    \/ GetWorkitemSummaryCall
    \/ NextRequest

SpecSummary == Init /\ [][NextSummary]_vars

IsSummary == req.op = "get_workitem_summary"

\* the chunks of the index that belong to the work item of the request
SummaryChunks ==
    {i \in 1..Len(chunk_metadata) :
        PyStr(chunk_metadata[i].workitem_id) = PyStr(req.workitem_id)}

\* C20: get_workitem_summary of a work item without chunks returns found =
\* FALSE and calls no capability; of a work item with chunks it calls the
\* Generation capability exactly once and returns found = TRUE and the number
\* of the work item's chunks as chunk_count.
C20_SummaryOfWorkitem ==
    IsSummary =>
        /\ ~result.raised
        /\ IF SummaryChunks = {}
           THEN /\ ~result.value.found
                /\ calls = << >>
           ELSE /\ result.value.found
                /\ Len(calls) = 1
                /\ calls[1].cap = "generation"
                /\ result.value.chunk_count = Cardinality(SummaryChunks)

\* a summary of two chunks stored under the number 1, asked for as "1", whose
\* Generation call failed
C20_Witness ==
    /\ IsSummary
    /\ req.workitem_id = StrId(1)
    /\ result.value.found
    /\ result.value.chunk_count = 2
    /\ \A i \in SummaryChunks : chunk_metadata[i].workitem_id = IntId(1)
    /\ result.value.answer = "Rate limit exceeded for GPT model"

\* a summary of a work item the index does not hold, of a loaded index
C20_WitnessNotFound ==
    /\ IsSummary
    /\ chunk_metadata # << >>
    /\ ~result.value.found

(***************************************************************************)
(* chunker.py: create_workitem_chunks                                       *)
(***************************************************************************)
MaxWorkitems == 2

\* the descriptions of the cleaned work items: none, a word, two words, and a
\* character of two tokens
Descriptions == {<< >>, <<"a">>, <<"a", " ", "a">>, <<"w">>}

\* the cleaned work items: an id in either form and a description
CleanedWorkitems == [id : WorkitemIds, description : Descriptions]

CleanedWorkitemLists == UNION {[1..n -> CleanedWorkitems] : n \in 0..MaxWorkitems}

\* the separators create_workitem_chunks gives its splitter (line 164)
WorkitemSeparators == << <<"\n", "\n">>, <<"\n">>, <<" ">>, << >> >>

\* '\n\n'.join(content_parts): the lines of the id, the title and the state,
\* each one word here, and "Description:\n" with the description when there
\* is one
FullContent(item) ==
    <<"a", "\n", "\n", "a", "\n", "\n", "a">>
    \o (IF item.description # << >>
        THEN <<"\n", "\n", "a", "\n">> \o item.description ELSE << >>)

\* lines 227-245: the chunk made of the i-th chunk_doc of a work item
WorkitemChunk(workitem_id, content, i, total_chunks) ==
    [chunk_id |-> ChunkId(workitem_id, i),
     content |-> content,
     workitem_id |-> workitem_id,
     chunk_index |-> i,
     total_chunks |-> total_chunks]

\* lines 213-246: the chunks made of what _split_text returned for the full
\* content of a work item: split_document keeps the stripped nonblank chunks
\* (lines 133-141), and when it keeps none the chunks are taken as they are
\* (lines 216-224); an exception of the splitter is caught and the full
\* content becomes the only chunk (lines 248-267)
ChunksFromSplit(workitem_id, full_content, text_chunks) ==
    IF Raised(text_chunks)
    THEN <<WorkitemChunk(workitem_id, full_content, 0, 1)>>
    ELSE LET docs == StripNonBlank(text_chunks)
             chunk_docs == IF docs # << >> THEN docs ELSE text_chunks
         IN  [k \in 1..Len(chunk_docs) |->
                 WorkitemChunk(workitem_id, chunk_docs[k], k - 1, Len(chunk_docs))]

\* lines 166-269: the chunks of one work item
ChunksOfWorkitem(item, size, overlap) ==
    ChunksFromSplit(item.id, FullContent(item),
                    SplitText(FullContent(item), WorkitemSeparators, size, overlap))

\* create_workitem_chunks
RECURSIVE CreateWorkitemChunks(_, _, _)
CreateWorkitemChunks(cleaned_workitems, size, overlap) ==
    IF cleaned_workitems = << >> THEN << >>
    ELSE ChunksOfWorkitem(Head(cleaned_workitems), size, overlap)
         \o CreateWorkitemChunks(Tail(cleaned_workitems), size, overlap)

\* a call of create_workitem_chunks with CHUNK_SIZE and CHUNK_OVERLAP as the
\* environment set them
CreateWorkitemChunksCall ==
    \E cleaned_workitems \in CleanedWorkitemLists :
        /\ req.op = "none"
        /\ req' = [op |-> "create_workitem_chunks",
                   cleaned_workitems |-> cleaned_workitems]
        /\ result' = [raised |-> FALSE,
                      value |-> CreateWorkitemChunks(cleaned_workitems,
                                                     chunk_size, chunk_overlap)]
        /\ calls' = << >>
        /\ UNCHANGED <<splitVars, threadVars, storeVars>>

\* CHUNK_SIZE and CHUNK_OVERLAP are read from the environment (lines 146-147)
InitChunker ==
    /\ text = << >>
    /\ chunk_size \in 1..MaxChunkSize
    /\ chunk_overlap \in 0..MaxChunkSize
    /\ separators = WorkitemSeparators
    /\ splitPc = "idle"
    /\ split_out = << >>
    /\ frames = << >>
    /\ embeddings_file = << >>
    /\ embeddings_matrix = << >>
    /\ chunk_metadata = << >>
    /\ req = [op |-> "none"]
    /\ result = [raised |-> FALSE, value |-> << >>]
    /\ calls = << >>
    /\ ThreadsIdle

NextChunker ==
    \/ CreateWorkitemChunksCall
    \/ NextRequest

SpecChunker == InitChunker /\ [][NextChunker]_vars

IsChunking == req.op = "create_workitem_chunks"

\* C21: the chunks of create_workitem_chunks have pairwise different chunk
\* ids, and the chunks of one work item carry the indices 0, 1, ... in order
\* and, as total_chunks, the number of chunks emitted for that work item.
C21_ChunkIdsUniqueIndicesContiguous ==
    IsChunking =>
        LET chunks == result.value
            OwnedBy(id) == {k \in 1..Len(chunks) : PyStr(chunks[k].workitem_id) = id}
        IN  /\ \A i, j \in 1..Len(chunks) :
                  i # j => chunks[i].chunk_id # chunks[j].chunk_id
            /\ \A k \in 1..Len(chunks) :
                  LET own == OwnedBy(PyStr(chunks[k].workitem_id))
                  IN  /\ chunks[k].total_chunks = Cardinality(own)
                      /\ chunks[k].chunk_index
                            = Cardinality({j \in own : j < k})

(***************************************************************************)
(* Every request of the store and of the question-answering system.        *)
(***************************************************************************)
\* a store built on a file of up to MaxBatchRecords records
InitRequests ==
    /\ Init
    /\ Len(embeddings_file) <= MaxBatchRecords

NextRequests ==
    \/ SimilaritySearchCall
    \/ GetRelatedWorkitemsCall
    \/ AnswerQuestionCall
    \/ BatchAnswerQuestionsCall
    \/ GetWorkitemSummaryCall
    \/ SearchWorkitemsByCriteriaCall
    \/ GetWorkitemChunksCall
    \/ GetStatisticsCall
    \/ GetSystemStatsCall
    \/ NextRequest

SpecRequests == InitRequests /\ [][NextRequests]_vars

\* C22: no request changes the vectors or the chunk metadata of the index,
\* whether it returns a result, returns nothing because a capability failed,
\* or raises; the index is at every moment the one built at construction, so
\* what a request returns does not depend on the requests made before it.
C22_RequestsLeaveIndexUnchanged ==
    /\ [](/\ embeddings_matrix = LoadedMatrix(embeddings_file)
          /\ chunk_metadata = LoadedMetadata(embeddings_file))
    /\ [][/\ embeddings_matrix' = embeddings_matrix
          /\ chunk_metadata' = chunk_metadata]_vars

\* a search of a loaded index has failed: the Embedding capability failed, or
\* the query vector had another length than the vectors of the index
C22_Witness ==
    /\ req.op = "similarity_search"
    /\ chunk_metadata # << >>
    /\ result.raised \/ EmbeddingFailed
    /\ result.value = << >>

(***************************************************************************)
(* ado_vector_store.py: load_embeddings called again on a store in use,     *)
(* while another thread of the caller runs similarity_search.  Each action  *)
(* is a stretch of one call that reads or writes the fields of the store at *)
(* most once per field; the threads interleave between the actions.         *)
(***************************************************************************)
MaxReloadRecords == 2

\* the files a store is built on and reloaded from
ReloadFiles == {f \in Files : Len(f) <= MaxReloadRecords}

\* what the Embedding capability does for the query of the search in flight
ReloadProviders == {[ok |-> FALSE, vec |-> << >>], [ok |-> TRUE, vec |-> <<3, 4>>]}

\* similarity_search's default top_k and similarity_threshold (lines 152-153)
SearchDefaultTopK == 5

SearchDefaultThreshold == 0

\* the index a store holds
Index(matrix, meta) == [matrix |-> matrix, meta |-> meta]

\* load_embeddings, lines 57-81: the file, rewritten since the store was
\* built, is read and the two lists are made; the call returns at once for
\* an empty file or a file without valid embeddings, and np.array raises at
\* line 83, before anything is assigned, for rows of different lengths
LoadEmbeddingsRead ==
    \E f \in ReloadFiles :
        LET data == FileRecords(f)
            valid == ValidRecords(data)
        IN  /\ loader.pc = "idle"
            /\ embeddings_file' = data
            /\ loader' = IF valid = << >> \/ Ragged(valid)
                         THEN [pc |-> "returned",
                               old |-> Index(embeddings_matrix, chunk_metadata),
                               new |-> Index(embeddings_matrix, chunk_metadata)]
                         ELSE [pc |-> "line_83",
                               old |-> Index(embeddings_matrix, chunk_metadata),
                               new |-> Index(LoadedMatrix(data), LoadedMetadata(data))]
            /\ UNCHANGED <<splitVars, reqVars, searcher,
                           embeddings_matrix, chunk_metadata>>

\* line 83: self.embeddings_matrix = np.array(embeddings_list)
LoadEmbeddingsAssignMatrix ==
    /\ loader.pc = "line_83"
    /\ embeddings_matrix' = loader.new.matrix
    /\ loader' = [loader EXCEPT !.pc = "line_84"]
    /\ UNCHANGED <<splitVars, reqVars, searcher, embeddings_file, chunk_metadata>>

\* line 84: self.chunk_metadata = metadata_list
LoadEmbeddingsAssignMetadata ==
    /\ loader.pc = "line_84"
    /\ chunk_metadata' = loader.new.meta
    /\ loader' = [loader EXCEPT !.pc = "returned"]
    /\ UNCHANGED <<splitVars, reqVars, searcher, embeddings_file, embeddings_matrix>>

\* similarity_search, lines 168-177, called with a query and its defaults:
\* the check of the two fields, then the query embedding
SearchBegin ==
    \E provider \in ReloadProviders :
        /\ searcher.pc = "idle"
        /\ searcher' =
              IF embeddings_matrix = << >> \/ Len(chunk_metadata) = 0
              THEN [pc |-> "returned", provider |-> provider,
                    raised |-> FALSE, value |-> << >>]
              ELSE IF ~GetQueryEmbedding("text", provider).ok
              THEN [pc |-> "returned", provider |-> provider,
                    raised |-> FALSE, value |-> << >>]
              ELSE [pc |-> "line_180", provider |-> provider]
        /\ UNCHANGED <<splitVars, storeVars, reqVars, loader>>

\* line 180: enumerate(self.embeddings_matrix) takes the array that is the
\* matrix at this moment and iterates over it from then on
SearchEnumerate ==
    /\ searcher.pc = "line_180"
    /\ searcher' = [pc |-> "loop", provider |-> searcher.provider,
                    matrix |-> embeddings_matrix, i |-> 1, similarities |-> << >>]
    /\ UNCHANGED <<splitVars, storeVars, reqVars, loader>>

\* lines 180-198: one iteration; self.chunk_metadata[i] is read from the
\* store as it is now, and raises IndexError beyond its end
SearchIterate ==
    /\ searcher.pc = "loop"
    /\ searcher.i <= Len(searcher.matrix)
    /\ LET i == searcher.i
           similarity == CosineSimilarity(searcher.provider.vec, searcher.matrix[i])
       IN  searcher' =
              IF ~PassesThreshold(similarity, SearchDefaultThreshold)
              THEN [searcher EXCEPT !.i = i + 1]
              ELSE IF i > Len(chunk_metadata)
              THEN [pc |-> "returned", provider |-> searcher.provider,
                    raised |-> TRUE, value |-> << >>]
              ELSE [searcher EXCEPT
                      !.i = i + 1,
                      !.similarities =
                          Append(@, [index |-> i - 1,
                                     similarity |-> similarity,
                                     chunk_id |-> chunk_metadata[i].chunk_id,
                                     workitem_id |-> chunk_metadata[i].workitem_id])]
    /\ UNCHANGED <<splitVars, storeVars, reqVars, loader>>

\* lines 201-202: the sort and the slice
SearchReturn ==
    /\ searcher.pc = "loop"
    /\ searcher.i > Len(searcher.matrix)
    /\ LET similarities == searcher.similarities
           order == SortDesc([k \in 1..Len(similarities) |->
                                 <<similarities[k].similarity>>])
           sorted == [k \in 1..Len(order) |-> similarities[order[k]]]
       IN  searcher' = [pc |-> "returned", provider |-> searcher.provider,
                        raised |-> FALSE,
                        value |-> TopSlice(sorted, SearchDefaultTopK)]
    /\ UNCHANGED <<splitVars, storeVars, reqVars, loader>>

InitReload ==
    /\ Init
    /\ Len(embeddings_file) <= MaxReloadRecords

NextReload ==
    \/ LoadEmbeddingsRead
    \/ LoadEmbeddingsAssignMatrix
    \/ LoadEmbeddingsAssignMetadata
    \/ SearchBegin
    \/ SearchEnumerate
    \/ SearchIterate
    \/ SearchReturn

SpecReload == InitReload /\ [][NextReload]_vars

\* what the search in flight returns when it runs alone on an index
SearchOn(index) ==
    LET r == SimilaritySearch(index.matrix, index.meta, "text", searcher.provider,
                              SearchDefaultTopK, SearchDefaultThreshold, NoFilter)
    IN  [raised |-> r.raised, value |-> r.value]

\* C23: a search that ran while load_embeddings was replacing the index
\* returns what it returns on the whole old index or on the whole new one.
C23_SearchSeesOneIndex ==
    searcher.pc = "returned" =>
        LET returned == [raised |-> searcher.raised, value |-> searcher.value]
        IN  IF loader.pc = "idle"
            THEN returned = SearchOn(Index(embeddings_matrix, chunk_metadata))
            ELSE returned \in {SearchOn(loader.old), SearchOn(loader.new)}

(***************************************************************************)
(* The retries of the Embedding capability.                                 *)
(***************************************************************************)
\* the calls of the Embedding capability the request made
EmbeddingAttempts == {c \in 1..Len(calls) : calls[c].cap = "embedding"}

\* C24: when the Embedding call answer_question makes for its query fails, the
\* call is made again (up to three attempts in all).
C24_QueryEmbeddingRetried ==
    IsAnswer /\ EmbeddingFailed =>
        /\ Cardinality(EmbeddingAttempts) > 1
        /\ Cardinality(EmbeddingAttempts) <= 3

\* generate_embeddings_with_retry's default max_retries (line 68)
MaxRetriesDefault == 3

\* what the Embedding capability does at one attempt
EmbeddingOutcomes ==
    {"ok", "APIConnectionError", "RateLimitError", "APIStatusError", "Exception"}

\* get_text_embedding: None without a call for a text that is empty once
\* cleaned; else one call, whose failure is caught and gives None, after a
\* sleep of 10 seconds for a RateLimitError
GetTextEmbedding(s, outcome) ==
    IF s = "blank"
    THEN [ok |-> FALSE, called |-> FALSE, outcome |-> "empty", slept |-> 0]
    ELSE [ok |-> outcome = "ok", called |-> TRUE, outcome |-> outcome,
          slept |-> IF outcome = "RateLimitError" THEN 10 ELSE 0]

\* generate_embeddings_with_retry, lines 79-87: the attempts from `attempt` on,
\* each with the seconds slept in it and after it
RECURSIVE RetryFrom(_, _, _, _)
RetryFrom(s, outcomes, attempt, max_retries) ==
    IF attempt >= max_retries THEN << >>
    ELSE LET embedding == GetTextEmbedding(s, outcomes[attempt + 1])
             wait_time == IF attempt < max_retries - 1 THEN (attempt + 1) * 5 ELSE 0
         IN  IF embedding.ok
             THEN << embedding >>
             ELSE << [embedding EXCEPT !.slept = @ + wait_time] >>
                  \o RetryFrom(s, outcomes, attempt + 1, max_retries)

\* generate_embeddings_with_retry: the attempts made and whether the last of
\* them gave an embedding
GenerateEmbeddingsWithRetry(s, outcomes, max_retries) ==
    LET attempts == RetryFrom(s, outcomes, 0, max_retries)
    IN  [attempts |-> attempts,
         ok |-> attempts # << >> /\ attempts[Len(attempts)].ok]

\* a call of generate_embeddings_with_retry(text)
GenerateEmbeddingsWithRetryCall ==
    \E text_in \in Queries, outcomes \in [1..MaxRetriesDefault -> EmbeddingOutcomes] :
        LET r == GenerateEmbeddingsWithRetry(text_in, outcomes, MaxRetriesDefault)
        IN  /\ req.op = "none"
            /\ req' = [op |-> "generate_embeddings_with_retry",
                       text |-> text_in, outcomes |-> outcomes]
            /\ result' = [raised |-> FALSE, value |-> r.ok]
            /\ calls' = [k \in 1..Len(r.attempts) |->
                            [cap |-> "embedding",
                             called |-> r.attempts[k].called,
                             outcome |-> r.attempts[k].outcome,
                             ok |-> r.attempts[k].ok,
                             slept |-> r.attempts[k].slept]]
            /\ UNCHANGED <<splitVars, threadVars, storeVars>>

NextRetry ==
    \/ GenerateEmbeddingsWithRetryCall
    \/ NextRequest

SpecRetry == Init /\ [][NextRetry]_vars

IsRetry == req.op = "generate_embeddings_with_retry"

\* C25: generate_embeddings_with_retry makes no further attempt after an
\* attempt that failed for an empty text or with a provider status error.
C25_NoRetryOfNonTransient ==
    IsRetry =>
        \A k \in 1..Len(calls) :
            calls[k].outcome \in {"empty", "APIStatusError"} => k = Len(calls)

(***************************************************************************)
(* Work item ids given as numbers and as strings.                           *)
(***************************************************************************)
\* the filter of the request with every id in its string form
CanonicalFilter ==
    [given |-> req.workitem_filter.given,
     ids |-> [k \in 1..Len(req.workitem_filter.ids) |->
                 PyStr(req.workitem_filter.ids[k])]]

\* C26: a similarity_search with a workitem_filter returns the same matches
\* whether the ids of the filter are given as numbers or as their strings.
C26_FilterIdFormIrrelevant ==
    IsSearch /\ req.workitem_filter.given =>
        result.value =
            SimilaritySearch(embeddings_matrix, chunk_metadata, req.query,
                             CalledProvider, req.top_k, req.similarity_threshold,
                             CanonicalFilter).value

(***************************************************************************)
(* The overlap between consecutive chunks and the end of _split_text.      *)
(***************************************************************************)
\* the text of the last chunk_overlap tokens of a chunk
OverlapTail(chunk) == Decode(PyTail(Encode(chunk), chunk_overlap))

\* C27: with a chunk_overlap above 0 and below chunk_size, every chunk of
\* _split_text after the first begins with the text of the last chunk_overlap
\* tokens of the chunk before it.
C27_ChunksBeginWithOverlap ==
    splitPc = "split_text" /\ chunk_overlap > 0 =>
        \A k \in 2..Len(split_out) :
            LET tail == OverlapTail(split_out[k - 1])
            IN  /\ Len(split_out[k]) >= Len(tail)
                /\ SubSeq(split_out[k], 1, Len(tail)) = tail

(***************************************************************************)
(* _split_text step by step: one frame per call in flight, one action per   *)
(* stretch of the code between two loop heads, calls and returns.           *)
(***************************************************************************)
MaxStepTextLen == 3

StepTexts == UNION {[1..n -> Chars] : n \in 0..MaxStepTextLen}

\* a recursion that keeps its list of separators
OtherSeparators_Same(seps) == seps

\* line 39: other_separators = separators[1:]
OtherSeparators(seps) == Tail(seps)

\* the frame of a call _split_text(s, seps) that has not started
Frame(s, seps) ==
    [s |-> s, seps |-> seps, pc |-> "enter",
     parts |-> << >>, chunks |-> << >>, final |-> << >>,
     tokens |-> << >>, i |-> 0, out |-> << >>]

TopFrame == frames[Len(frames)]

\* the stack with its top frame replaced
WithTop(f) == [frames EXCEPT ![Len(frames)] = f]

\* lines 63-80: a part that fits is appended, joined to the last chunk, or
\* appended behind the overlap of the last chunk
PackOne(chunks, part, sep, size, overlap) ==
    LET last == chunks[Len(chunks)]
        butlast == SubSeq(chunks, 1, Len(chunks) - 1)
    IN  IF chunks = << >> \/ TokenCount(last \o sep \o part) > size
        THEN Append(chunks, part)
        ELSE IF TokenCount(last) + TokenCount(part) + TokenCount(sep) <= size
        THEN Append(butlast, last \o sep \o part)
        ELSE LET overlap_text == Decode(PyTail(Encode(last), overlap))
             IN  IF TokenCount(overlap_text \o sep \o part) <= size
                 THEN Append(chunks, overlap_text \o sep \o part)
                 ELSE Append(chunks, part)

\* lines 85-100: one iteration of the refining loop
RefineOne(final, current_chunk, sep, size, overlap) ==
    IF final = << >> THEN <<current_chunk>>
    ELSE LET prev_chunk_tokens == Encode(final[Len(final)])
             from == IF Len(prev_chunk_tokens) - overlap > 0
                     THEN Len(prev_chunk_tokens) - overlap ELSE 0
             overlap_text == Decode(PySlice(prev_chunk_tokens, from,
                                            Len(prev_chunk_tokens)))
             combined_text == IF overlap_text # << >>
                              THEN overlap_text \o sep \o current_chunk
                              ELSE current_chunk
         IN  IF TokenCount(combined_text) <= size
             THEN Append(final, combined_text)
             ELSE Append(final, current_chunk)

\* the caller starts _split_text(text, self.separators)
StepCall ==
    /\ splitPc = "idle"
    /\ splitPc' = "running"
    /\ frames' = <<Frame(text, separators)>>
    /\ UNCHANGED <<text, chunk_size, chunk_overlap, separators, split_out>>
    /\ UNCHANGED <<storeVars, reqVars, threadVars>>

\* lines 34-54: which of the three ways the call takes
StepEnter ==
    /\ splitPc = "running"
    /\ TopFrame.pc = "enter"
    /\ LET f == TopFrame
       IN  frames' = WithTop(
              IF f.seps = << >>
              THEN [f EXCEPT !.pc = "chars"]
              ELSE IF Head(f.seps) = << >>
              THEN IF TokenCount(f.s) <= chunk_size
                   THEN [f EXCEPT !.pc = "return", !.out = <<f.s>>]
                   ELSE [f EXCEPT !.pc = "slice", !.tokens = Encode(f.s)]
              ELSE [f EXCEPT !.pc = "parts", !.parts = PySplit(f.s, Head(f.seps))])
    /\ UNCHANGED <<text, chunk_size, chunk_overlap, separators, splitPc, split_out>>
    /\ UNCHANGED <<storeVars, reqVars, threadVars>>

\* line 36: one element of the comprehension over range(0, len(text), step)
StepChars ==
    /\ splitPc = "running"
    /\ TopFrame.pc = "chars"
    /\ LET f == TopFrame
       IN  frames' = WithTop(
              IF f.i < Len(f.s)
              THEN [f EXCEPT !.out = Append(@, PySlice(f.s, f.i, f.i + chunk_size)),
                             !.i = @ + (chunk_size - chunk_overlap)]
              ELSE [f EXCEPT !.pc = "return"])
    /\ UNCHANGED <<text, chunk_size, chunk_overlap, separators, splitPc, split_out>>
    /\ UNCHANGED <<storeVars, reqVars, threadVars>>

\* lines 49-52: one iteration of the loop over range(0, len(tokens), step)
StepSlice ==
    /\ splitPc = "running"
    /\ TopFrame.pc = "slice"
    /\ LET f == TopFrame
       IN  frames' = WithTop(
              IF f.i < Len(f.tokens)
              THEN [f EXCEPT
                      !.out = Append(@, Decode(PySlice(f.tokens, f.i, f.i + chunk_size))),
                      !.i = @ + (chunk_size - chunk_overlap)]
              ELSE [f EXCEPT !.pc = "return"])
    /\ UNCHANGED <<text, chunk_size, chunk_overlap, separators, splitPc, split_out>>
    /\ UNCHANGED <<storeVars, reqVars, threadVars>>

\* lines 56-80: one iteration of the loop over the parts; a part that is too
\* large is handed to a new call with the other separators
StepPart ==
    /\ splitPc = "running"
    /\ TopFrame.pc = "parts"
    /\ LET f == TopFrame
           part == Head(f.parts)
       IN  frames' =
              IF f.parts = << >>
              THEN WithTop([f EXCEPT !.pc = "refine"])
              ELSE IF part = << >>
              THEN WithTop([f EXCEPT !.parts = Tail(@)])
              ELSE IF TokenCount(part) > chunk_size
              THEN Append(WithTop([f EXCEPT !.parts = Tail(@), !.pc = "extend"]),
                          Frame(part, OtherSeparators(f.seps)))
              ELSE WithTop([f EXCEPT
                              !.parts = Tail(@),
                              !.chunks = PackOne(@, part, Head(f.seps),
                                                 chunk_size, chunk_overlap)])
    /\ UNCHANGED <<text, chunk_size, chunk_overlap, separators, splitPc, split_out>>
    /\ UNCHANGED <<storeVars, reqVars, threadVars>>

\* lines 83-100: one iteration of the refining loop
StepRefine ==
    /\ splitPc = "running"
    /\ TopFrame.pc = "refine"
    /\ LET f == TopFrame
       IN  frames' = WithTop(
              IF f.chunks = << >>
              THEN [f EXCEPT !.pc = "resplit"]
              ELSE [f EXCEPT
                      !.chunks = Tail(@),
                      !.final = RefineOne(@, Head(f.chunks), Head(f.seps),
                                          chunk_size, chunk_overlap)])
    /\ UNCHANGED <<text, chunk_size, chunk_overlap, separators, splitPc, split_out>>
    /\ UNCHANGED <<storeVars, reqVars, threadVars>>

\* lines 103-112: one iteration of the last pass; a chunk that is too big
\* goes to the loop of lines 108-110
StepResplit ==
    /\ splitPc = "running"
    /\ TopFrame.pc = "resplit"
    /\ LET f == TopFrame
           chunk == Head(f.final)
       IN  frames' = WithTop(
              IF f.final = << >>
              THEN [f EXCEPT !.pc = "return"]
              ELSE IF TokenCount(chunk) > chunk_size
              THEN [f EXCEPT !.final = Tail(@), !.pc = "windows",
                             !.tokens = Encode(chunk), !.i = 0]
              ELSE [f EXCEPT !.final = Tail(@), !.out = Append(@, chunk)])
    /\ UNCHANGED <<text, chunk_size, chunk_overlap, separators, splitPc, split_out>>
    /\ UNCHANGED <<storeVars, reqVars, threadVars>>

\* lines 108-110: one iteration of the loop over range(0, len(tokens), step)
StepWindow ==
    /\ splitPc = "running"
    /\ TopFrame.pc = "windows"
    /\ LET f == TopFrame
       IN  frames' = WithTop(
              IF f.i < Len(f.tokens)
              THEN [f EXCEPT
                      !.out = Append(@, Decode(PySlice(f.tokens, f.i, f.i + chunk_size))),
                      !.i = @ + (chunk_size - chunk_overlap)]
              ELSE [f EXCEPT !.pc = "resplit"])
    /\ UNCHANGED <<text, chunk_size, chunk_overlap, separators, splitPc, split_out>>
    /\ UNCHANGED <<storeVars, reqVars, threadVars>>

\* a return: to the caller of _split_text, or to line 62 of the call below,
\* which extends its chunks
StepReturn ==
    /\ splitPc = "running"
    /\ TopFrame.pc = "return"
    /\ IF Len(frames) = 1
       THEN /\ frames' = << >>
            /\ splitPc' = "split_text"
            /\ split_out' = TopFrame.out
       ELSE /\ LET caller == frames[Len(frames) - 1]
               IN  frames' = Append(SubSeq(frames, 1, Len(frames) - 2),
                                    [caller EXCEPT !.pc = "parts",
                                                   !.chunks = @ \o TopFrame.out])
            /\ UNCHANGED <<splitPc, split_out>>
    /\ UNCHANGED <<text, chunk_size, chunk_overlap, separators>>
    /\ UNCHANGED <<storeVars, reqVars, threadVars>>

\* chunk_overlap < chunk_size, as __init__ is called in the repository
InitSplitSteps ==
    /\ InitSplit
    /\ Len(text) <= MaxStepTextLen

NextSplitSteps ==
    \/ StepCall
    \/ StepEnter
    \/ StepChars
    \/ StepSlice
    \/ StepPart
    \/ StepRefine
    \/ StepResplit
    \/ StepWindow
    \/ StepReturn

SpecSplitSteps == InitSplitSteps /\ [][NextSplitSteps]_vars

\* every call in flight has fewer separators than the call that made it
FramesShorten ==
    \A j \in 2..Len(frames) : Len(frames[j].seps) < Len(frames[j - 1].seps)

\* a loop over range(0, n, step) has made at most n iterations
WindowsBounded ==
    \A j \in 1..Len(frames) :
        /\ frames[j].pc = "chars" => Len(frames[j].out) <= Len(frames[j].s)
        /\ frames[j].pc = "slice" => Len(frames[j].out) <= Len(frames[j].tokens)

\* what the steps return is what SplitText computes
StepsAgree ==
    splitPc = "split_text" =>
        split_out = SplitText(text, separators, chunk_size, chunk_overlap)

\* a call in flight can always take its next step: the frame on top is at one
\* of the places an action starts from
NeverStuck ==
    splitPc = "running" =>
        /\ frames # << >>
        /\ TopFrame.pc \in {"enter", "chars", "slice", "parts", "refine",
                            "resplit", "windows", "return"}
        /\ \A j \in 1..(Len(frames) - 1) : frames[j].pc = "extend"

\* The steps a call has left are bounded by a number that every step lowers.
\* ByteCount is the size of a text; a call on a text of n bytes with k
\* separators takes at most StepBound(k) * (n + 1) steps, and the chunks it
\* returns cost the caller at most ChunkBound(k) * (n + 1) steps.
ByteCount(s) == Len(Utf8Encode(s))

\* the steps the last pass spends on a chunk
ChunkCost(c) == IF TokenCount(c) <= chunk_size THEN 1 ELSE 2 + TokenCount(c)

RECURSIVE ChunkBound(_)
ChunkBound(k) == IF k = 0 THEN 3 + 2 * chunk_size ELSE 2 + 4 * ChunkBound(k - 1)

RECURSIVE StepBound(_)
StepBound(k) == IF k = 0 THEN 3 ELSE 9 + 2 * (StepBound(k - 1) + ChunkBound(k - 1))

CallSteps(s, seps) == StepBound(Len(seps)) * (ByteCount(s) + 1)

CallChunks(s, seps) == ChunkBound(Len(seps)) * (ByteCount(s) + 1)

\* the steps a part that is still to come costs the loop of lines 56-80,
\* the refining of the chunk it adds included
PartCost(part, seps) ==
    IF part = << >> THEN 1
    ELSE IF TokenCount(part) > chunk_size
    THEN 1 + CallSteps(part, Tail(seps)) + CallChunks(part, Tail(seps))
    ELSE 3

LoopLeft(n, i) == IF i < n THEN n - i ELSE 0

ResplitLeft(f) == SumSeq([k \in 1..Len(f.final) |-> ChunkCost(f.final[k])]) + 2

RefineLeft(f) ==
    SumSeq([k \in 1..Len(f.chunks) |-> 1 + ChunkCost(f.chunks[k])]) + 1 + ResplitLeft(f)

PartsLeft(f) ==
    SumSeq([k \in 1..Len(f.parts) |-> PartCost(f.parts[k], f.seps)]) + 1 + RefineLeft(f)

\* the steps left to the frame at position j of a stack
FrameLeft(stack, j) ==
    LET f == stack[j]
    IN  CASE f.pc = "enter" -> CallSteps(f.s, f.seps)
          [] f.pc = "chars" -> LoopLeft(Len(f.s), f.i) + 2
          [] f.pc = "slice" -> LoopLeft(Len(f.tokens), f.i) + 2
          [] f.pc = "parts" -> PartsLeft(f)
          [] f.pc = "extend" ->
                PartsLeft(f) + CallChunks(stack[j + 1].s, stack[j + 1].seps)
          [] f.pc = "refine" -> RefineLeft(f)
          [] f.pc = "resplit" -> ResplitLeft(f)
          [] f.pc = "windows" -> LoopLeft(Len(f.tokens), f.i) + 1 + ResplitLeft(f)
          [] f.pc = "return" -> 1

\* the steps left when the call is at pc with the given stack
StepsLeft(pc, stack) ==
    IF pc = "idle" THEN 1 + CallSteps(text, separators)
    ELSE SumSeq([j \in 1..Len(stack) |-> FrameLeft(stack, j)])

\* C28: with chunk_overlap < chunk_size every call of _split_text returns:
\* each nested call has a strictly shorter list of separators than its
\* caller, each loop over range(0, n, chunk_size - chunk_overlap) makes at most
\* n iterations, a call in flight is never stuck, and every step lowers the
\* natural number StepsLeft, so only finitely many steps are taken before the
\* call returns its list of chunks.
C28_SegmenterTerminates ==
    /\ [](FramesShorten /\ WindowsBounded /\ NeverStuck /\ StepsAgree)
    /\ [](StepsLeft(splitPc, frames) >= 0)
    /\ [][\A pc \in {splitPc'}, stack \in {frames'} :
             StepsLeft(pc, stack) < StepsLeft(splitPc, frames)]_vars

\* a text without the separators of the list was cut by a nested call without
\* separators into more than one window, and the call returned
C28_Witness ==
    /\ splitPc = "split_text"
    /\ Len(separators) = 1
    /\ TokenCount(text) > chunk_size
    /\ Len(split_out) > 1
    /\ \A i \in 1..Len(text) : text[i] # "\n"

(***************************************************************************)
(* search_workitems_by_criteria: the threshold in the grouped mode         *)
(***************************************************************************)
\* C29: every chunk of every work item that a grouped
\* search_workitems_by_criteria returns has a similarity greater than or equal
\* to the similarity_threshold of the call.
C29_GroupedHonoursThreshold ==
    IsCriteria /\ req.group_by_workitem /\ result.value.found =>
        \A k \in 1..Len(result.value.workitems) :
            \A c \in 1..Len(result.value.workitems[k].relevant_chunks) :
                result.value.workitems[k].relevant_chunks[c].similarity
                    >= req.similarity_threshold

(***************************************************************************)
(* embedding.py: the error paths of the ingestion run                      *)
(***************************************************************************)
\* the run generated no embedding for any of its new chunks
NoNewEmbedding ==
    \A k \in RunNewChunks : req.chunks[k].chunk_id \notin req.embedded

\* C30: after a run in which the existing file could not be loaded, or in
\* which no new chunk's embedding was generated, every record the file held
\* before the run is still in it, unaltered.
C30_ErrorPathKeepsRecords ==
    IsIngestion /\ (req.load = "fails" \/ NoNewEmbedding) =>
        \A i \in 1..Len(req.before) :
            \E j \in 1..Len(embeddings_file) : embeddings_file[j] = req.before[i]

====
